---- MODULE Spec2Model ----
(***************************************************************************)
(* Model of the core entity graph of postprocess4validation:               *)
(*   PointData -> DataSet -> Plane / Line / PlaneSet.                      *)
(*                                                                         *)
(* PointData objects live in a heap (a sequence; an object's identity is   *)
(* its index).  A DataSet holds object identities, as the Python list and  *)
(* the coordinate index hold references.  Python dicts are modelled as     *)
(* sequences of entries, because their iteration order is observable.      *)
(***************************************************************************)
EXTENDS Integers, Sequences, FiniteSets, TLC

VARIABLES
    heap,     \* the PointData objects constructed so far
    ds,       \* the DataSet: points, _point_index, _fields
    planes,   \* the PlaneSet last returned by points_to_planes
    res,      \* the last call: its name, its arguments, its outcome
    added,    \* history: the arguments of the add_point calls, in order
    exp_ds,   \* the experiment DataSet that ds is compared with
    source    \* the source labels of exp_ds (exp) and of ds (sim)

vars == <<heap, ds, planes, res, added, exp_ds, source>>

(***************************************************************************)
(* Bounds and domains.                                                     *)
(***************************************************************************)
MaxPoints == 2
MaxCoord == 1

DEFAULT_TIME_FOR_DATASET == 0

None == 0

FieldNames == {"U", "V"}
PointFieldNames == {"U", "V", "W"}
Times == {0, 1}
Values == {1, 2}
Axis == 0..MaxCoord
Coordinates == Axis \X Axis \X Axis

\* A time-map {time: value}: a function from a set of times to values.
EmptyMap == [t \in {} |-> 0]
TimeMaps == UNION {[T -> Values] : T \in SUBSET Times}

(***************************************************************************)
(* Python dict helpers.                                                    *)
(***************************************************************************)
\* dict.setdefault(k, v) on a time-map: keeps the value of a present key.
setdefault(m, k, v) == IF k \in DOMAIN m THEN m ELSE (k :> v) @@ m

\* m[k] = v on a time-map: overwrites.
setkey(m, k, v) == (k :> v) @@ [x \in DOMAIN m \ {k} |-> m[x]]

(***************************************************************************)
(* PointData.  fields is an ordered dict {field_name: {time: value}},      *)
(* modelled as a sequence of [name, data] entries in insertion order.      *)
(***************************************************************************)
HasField(flds, f) == \E i \in 1..Len(flds) : flds[i].name = f

FieldIndex(flds, f) == CHOOSE i \in 1..Len(flds) : flds[i].name = f

FieldData(flds, f) == flds[FieldIndex(flds, f)].data

FieldKeys(flds) == {flds[i].name : i \in 1..Len(flds)}

\* PointData.get_field_value(field_name, time)
get_field_value(flds, f, t) ==
    IF HasField(flds, f) /\ t \in DOMAIN FieldData(flds, f)
    THEN [status |-> "ok", value |-> FieldData(flds, f)[t]]
    ELSE [status |-> "KeyError", value |-> None]

\* PointData.__getitem__((field, time))
PointData_getitem(flds, f, t) == get_field_value(flds, f, t)

\* The slot (f, t) of the field dict flds, read back: point[f, t].
Slot(flds, f, t) == PointData_getitem(flds, f, t)

\* get_times as it would be with the disagreeing field looked up at the
\* enumerate index itself instead of index + 1.
get_times_off_by_one(flds) ==
    IF flds = <<>>
    THEN [status |-> "ValueError", times |-> {}, ref |-> "", cur |-> ""]
    ELSE LET ref_times == DOMAIN flds[1].data
             bad == {i \in 2..Len(flds) : DOMAIN flds[i].data # ref_times}
         IN IF bad = {}
            THEN [status |-> "ok", times |-> DOMAIN flds[1].data,
                  ref |-> "", cur |-> ""]
            ELSE LET i == CHOOSE j \in bad : \A k \in bad : j <= k
                 IN [status |-> "PointTimeConsistencyError", times |-> {},
                     ref |-> flds[1].name, cur |-> flds[i - 1].name]

\* PointData.get_times() with no field name.
get_times(flds) ==
    IF flds = <<>>
    THEN [status |-> "ValueError", times |-> {}, ref |-> "", cur |-> ""]
    ELSE LET ref_times == DOMAIN flds[1].data
             bad == {i \in 2..Len(flds) : DOMAIN flds[i].data # ref_times}
         IN IF bad = {}
            THEN [status |-> "ok", times |-> DOMAIN flds[1].data,
                  ref |-> "", cur |-> ""]
            ELSE LET i == CHOOSE j \in bad : \A k \in bad : j <= k
                 IN [status |-> "PointTimeConsistencyError", times |-> {},
                     ref |-> flds[1].name, cur |-> flds[i].name]

\* __setitem__((field, time), value) as it would be with a plain dict
\* assignment in place of setdefault.
PointData_setitem_overwrite(flds, f, t, v) ==
    LET withField == IF HasField(flds, f) THEN flds
                     ELSE Append(flds, [name |-> f, data |-> EmptyMap])
        i == FieldIndex(withField, f)
    IN [withField EXCEPT ![i].data = setkey(@, t, v)]

\* PointData.__setitem__((field, time), value)
PointData_setitem(flds, f, t, v) ==
    LET withField == IF HasField(flds, f) THEN flds
                     ELSE Append(flds, [name |-> f, data |-> EmptyMap])
        i == FieldIndex(withField, f)
    IN [withField EXCEPT ![i].data = setdefault(@, t, v)]

\* PointData.__setitem__(field, mapping)
PointData_setfield(flds, f, m) ==
    IF HasField(flds, f) THEN flds
    ELSE Append(flds, [name |-> f, data |-> m])

\* The constructor's normalisation of one initial field: a bare scalar is
\* wrapped under the default time, a dict is kept.
NormaliseField(e) ==
    [name |-> e.name,
     data |-> IF e.isdict THEN e.dict
              ELSE (DEFAULT_TIME_FOR_DATASET :> e.scalar)]

\* PointData.__init__(coordinates, fields): the object, or the error raised.
PointData_init(coordinates, init) ==
    LET flds == [i \in 1..Len(init) |-> NormaliseField(init[i])]
        chk == IF flds # <<>> THEN get_times(flds)
               ELSE [status |-> "ok", times |-> {}, ref |-> "", cur |-> ""]
    IN IF chk.status \in {"ok", "PointTimeConsistencyError"}
       THEN [status |-> "ok",
             obj |-> [coordinates |-> coordinates, fields |-> flds]]
       ELSE [status |-> chk.status,
             obj |-> [coordinates |-> coordinates, fields |-> <<>>]]

(***************************************************************************)
(* Initial state: nothing constructed, an empty DataSet(source).           *)
(***************************************************************************)
EmptyDataSet == [points |-> <<>>, _point_index |-> <<>>, _fields |-> {}]

Init ==
    /\ heap = <<>>
    /\ ds = EmptyDataSet
    /\ planes = <<>>
    /\ res = [op |-> "init"]
    /\ added = <<>>
    /\ exp_ds = EmptyDataSet
    /\ source = [exp |-> "experiment", sim |-> "simulation"]

(***************************************************************************)
(* The initial fields a caller may pass to PointData(coordinates, fields): *)
(* a dict of at most two entries, each a bare scalar or a time-map.        *)
(***************************************************************************)
InitEntries ==
    {[name |-> f, isdict |-> FALSE, scalar |-> v, dict |-> EmptyMap] :
        f \in PointFieldNames, v \in Values}
    \cup
    {[name |-> f, isdict |-> TRUE, scalar |-> None, dict |-> m] :
        f \in PointFieldNames, m \in TimeMaps}

InitFields ==
    {<<>>} \cup {<<e>> : e \in InitEntries}
    \cup {p \in InitEntries \X InitEntries : p[1].name # p[2].name}

(***************************************************************************)
(* PointData operations as steps.                                          *)
(***************************************************************************)
\* p = PointData(coordinates, init)
Construct(coordinates, init) ==
    LET r == PointData_init(coordinates, init)
    IN /\ heap' = IF r.status = "ok" THEN Append(heap, r.obj) ELSE heap
       /\ res' = [op |-> "PointData", status |-> r.status,
                  obj |-> Len(heap) + 1]
       /\ UNCHANGED <<ds, planes, added, exp_ds, source>>

\* heap[o][f, t] = v
SetItem(o, f, t, v) ==
    /\ heap' = [heap EXCEPT ![o].fields = PointData_setitem(@, f, t, v)]
    /\ res' = [op |-> "setitem", obj |-> o, f |-> f, t |-> t, v |-> v,
               old |-> Slot(heap[o].fields, f, t)]
    /\ UNCHANGED <<ds, planes, added, exp_ds, source>>

\* heap[o][f] = m
SetField(o, f, m) ==
    /\ heap' = [heap EXCEPT ![o].fields = PointData_setfield(@, f, m)]
    /\ res' = [op |-> "setfield", obj |-> o, f |-> f, m |-> m,
               had |-> HasField(heap[o].fields, f),
               old |-> IF HasField(heap[o].fields, f)
                       THEN FieldData(heap[o].fields, f) ELSE EmptyMap]
    /\ UNCHANGED <<ds, planes, added, exp_ds, source>>

\* heap[o].get_times()
GetTimes(o) ==
    /\ res' = [op |-> "get_times", obj |-> o,
               out |-> get_times(heap[o].fields)]
    /\ UNCHANGED <<heap, ds, planes, added, exp_ds, source>>

(***************************************************************************)
(* SpecPoint: one PointData object and its keyed reads and writes.         *)
(***************************************************************************)
Origin == <<0, 0, 0>>

NewPoint ==
    /\ heap = <<>>
    /\ \E init \in InitFields : Construct(Origin, init)

WriteSlot ==
    \E o \in 1..Len(heap), f \in PointFieldNames, t \in Times, v \in Values :
        SetItem(o, f, t, v)

WriteField ==
    \E o \in 1..Len(heap), f \in PointFieldNames, m \in TimeMaps :
        SetField(o, f, m)

ReadTimes == \E o \in 1..Len(heap) : GetTimes(o)

NextPoint == NewPoint \/ WriteSlot \/ WriteField \/ ReadTimes

SpecPoint == Init /\ [][NextPoint]_vars

(***************************************************************************)
(* DataSet.  points is the ordered list (object identities);               *)
(* _point_index is the dict {coordinates: point}, a sequence of            *)
(* [key, value] entries in insertion order; _fields holds the keys of the  *)
(* field registry {field_name: unit}.                                      *)
(***************************************************************************)
\* list(index.keys())
IndexKeys(idx) == [i \in 1..Len(idx) |-> idx[i].key]

\* coordinates in index
InIndex(idx, c) == \E i \in 1..Len(idx) : idx[i].key = c

\* index.get(coordinates, None)
IndexGet(idx, c) ==
    IF InIndex(idx, c)
    THEN idx[CHOOSE i \in 1..Len(idx) : idx[i].key = c].value
    ELSE None

\* index.setdefault(coordinates, point)
IndexSetdefault(idx, c, o) ==
    IF InIndex(idx, c) THEN idx ELSE Append(idx, [key |-> c, value |-> o])

\* index[coordinates] = point
IndexAssign(idx, c, o) ==
    IF InIndex(idx, c)
    THEN [i \in 1..Len(idx) |->
            IF idx[i].key = c THEN [key |-> c, value |-> o] ELSE idx[i]]
    ELSE Append(idx, [key |-> c, value |-> o])

\* add_point as it would be without indexing the appended point.
add_point_no_index(d, h, o) == [d EXCEPT !.points = Append(@, o)]

\* add_point as it would be with index[coordinates] = point.
add_point_assign(d, h, o) ==
    [d EXCEPT !.points = Append(@, o),
              !._point_index = IndexAssign(@, h[o].coordinates, o)]

\* DataSet.add_point(point): the dataset afterwards (it never raises).
add_point(d, h, o) ==
    [d EXCEPT !.points = Append(@, o),
              !._point_index = IndexSetdefault(@, h[o].coordinates, o)]

\* DataSet.get_point_by_coordinates(coordinates)
get_point_by_coordinates(d, c) == IndexGet(d._point_index, c)

\* DataSet.__len__
DataSet_len(d) == Len(d.points)

\* DataSet.get_all_coordinates()
get_all_coordinates(d) == IndexKeys(d._point_index)

\* The DataSet.fields property: the registry it returns, which it also
\* stores in _fields when _fields was empty.
DataSet_fields(d, h) ==
    IF d._fields = {}
    THEN UNION {FieldKeys(h[d.points[i]].fields) : i \in 1..Len(d.points)}
    ELSE d._fields

\* add_field_value as it would be when writing through PointData.__setitem__.
add_field_value_setdefault(d, h, f, t, v, c) ==
    IF ~InIndex(d._point_index, c)
    THEN [status |-> "KeyError", heap |-> h]
    ELSE LET o == IndexGet(d._point_index, c)
         IN [status |-> "ok",
             heap |-> [h EXCEPT ![o].fields = PointData_setitem(@, f, t, v)]]

\* add_field_value as it would be when returning silently for coordinates
\* that are not indexed.
add_field_value_silent(d, h, f, t, v, c) ==
    IF ~InIndex(d._point_index, c)
    THEN [status |-> "ok", heap |-> h]
    ELSE LET o == IndexGet(d._point_index, c)
             flds == h[o].fields
             withField == IF HasField(flds, f) THEN flds
                          ELSE Append(flds, [name |-> f, data |-> EmptyMap])
             i == FieldIndex(withField, f)
         IN [status |-> "ok",
             heap |-> [h EXCEPT ![o].fields =
                          [withField EXCEPT ![i].data = setkey(@, t, v)]]]

\* DataSet.add_field_value(field_name, time, value, point_coordinates): the
\* outcome and the heap afterwards.
add_field_value(d, h, f, t, v, c) ==
    IF ~InIndex(d._point_index, c)
    THEN [status |-> "KeyError", heap |-> h]
    ELSE LET o == IndexGet(d._point_index, c)
             flds == h[o].fields
             withField == IF HasField(flds, f) THEN flds
                          ELSE Append(flds, [name |-> f, data |-> EmptyMap])
             i == FieldIndex(withField, f)
         IN [status |-> "ok",
             heap |-> [h EXCEPT ![o].fields =
                          [withField EXCEPT ![i].data = setkey(@, t, v)]]]

\* The loop of get_field_values over the requested coordinates.
RECURSIVE CollectValues(_, _, _, _, _)
CollectValues(d, h, f, t, req) ==
    IF req = <<>> THEN <<>>
    ELSE LET point == IndexGet(d._point_index, Head(req))
             rest == CollectValues(d, h, f, t, Tail(req))
         IN IF point = None THEN rest
            ELSE LET r == PointData_getitem(h[point].fields, f, t)
                 IN IF r.status = "ok" THEN <<r.value>> \o rest ELSE rest

\* get_field_values as it would be without the registry check.
get_field_values_unchecked(d, h, f, t, req) ==
    [status |-> "ok", values |-> CollectValues(d, h, f, t, req)]

\* DataSet.get_field_values(field_name, time, point_coordinates)
get_field_values(d, h, f, t, req) ==
    IF f \notin DataSet_fields(d, h)
    THEN [status |-> "NameError", values |-> <<>>]
    ELSE [status |-> "ok", values |-> CollectValues(d, h, f, t, req)]

(***************************************************************************)
(* DataSet operations as steps.                                            *)
(***************************************************************************)
\* ds.add_point(heap[o])
AddPoint(o) ==
    /\ ds' = add_point(ds, heap, o)
    /\ added' = Append(added, o)
    /\ res' = [op |-> "add_point", obj |-> o, status |-> "ok",
               warned |-> InIndex(ds._point_index, heap[o].coordinates),
               prev |-> IndexGet(ds._point_index, heap[o].coordinates),
               len |-> DataSet_len(ds)]
    /\ UNCHANGED <<heap, planes, exp_ds, source>>

\* ds.get_point_by_coordinates(c)
GetPoint(c) ==
    /\ res' = [op |-> "get_point_by_coordinates", c |-> c,
               out |-> get_point_by_coordinates(ds, c)]
    /\ UNCHANGED <<heap, ds, planes, added, exp_ds, source>>

\* ds.add_field_value(f, t, v, c)
AddFieldValue(f, t, v, c) ==
    LET r == add_field_value(ds, heap, f, t, v, c)
    IN /\ heap' = r.heap
       /\ res' = [op |-> "add_field_value", f |-> f, t |-> t, v |-> v,
                  c |-> c, status |-> r.status,
                  old |-> IF InIndex(ds._point_index, c)
                          THEN Slot(heap[IndexGet(ds._point_index, c)].fields,
                                    f, t)
                          ELSE [status |-> "KeyError", value |-> None]]
       /\ UNCHANGED <<ds, planes, added, exp_ds, source>>

\* ds.fields
ReadFields ==
    /\ ds' = [ds EXCEPT !._fields = DataSet_fields(ds, heap)]
    /\ res' = [op |-> "fields"]
    /\ UNCHANGED <<heap, planes, added, exp_ds, source>>

\* ds.get_field_values(f, t, req).  The call changes the dataset only by
\* the registry read (ds.fields), whatever t and req are; what it returns is
\* get_field_values(ds, heap, f, t, req), and it raises or not by f alone.
GetFieldValues(f) ==
    /\ ds' = [ds EXCEPT !._fields = DataSet_fields(ds, heap)]
    /\ res' = [op |-> "get_field_values", f |-> f,
               status |-> get_field_values(ds, heap, f,
                              DEFAULT_TIME_FOR_DATASET, <<>>).status]
    /\ UNCHANGED <<heap, planes, added, exp_ds, source>>

(***************************************************************************)
(* SpecIndex: points without fields at any coordinates of a line, added    *)
(* to the dataset in any order and any number of times, and looked up.     *)
(***************************************************************************)
Keys == {<<x, 0, 0>> : x \in 0..MaxPoints}

MakeKeyPoint ==
    /\ Len(heap) < MaxPoints
    /\ \E c \in Keys : Construct(c, <<>>)

AddAnyPoint ==
    /\ Len(ds.points) < MaxPoints
    /\ \E o \in 1..Len(heap) : AddPoint(o)

LookupPoint == \E c \in Keys : GetPoint(c)

NextIndex == MakeKeyPoint \/ AddAnyPoint \/ LookupPoint

SpecIndex == Init /\ [][NextIndex]_vars

(***************************************************************************)
(* SpecFields: a dataset loaded the way the loaders do it (each point is   *)
(* constructed and then added, the k-th at <<k - 1, 0, 0>>), its field     *)
(* values written through add_field_value, its registry read, and its     *)
(* field values queried.                                                   *)
(***************************************************************************)
WriteTimes == {DEFAULT_TIME_FOR_DATASET}

LoadedInit ==
    {<<>>} \cup
    {<<[name |-> "U", isdict |-> FALSE, scalar |-> v, dict |-> EmptyMap]>> :
        v \in Values}

\* Coordinate lists a caller may pass to get_field_values.
RequestLists ==
    {<<>>} \cup {<<c>> : c \in Keys} \cup (Keys \X Keys)

LoadConstruct ==
    /\ Len(heap) < MaxPoints
    /\ Len(heap) = Len(ds.points)
    /\ \E init \in LoadedInit : Construct(<<Len(heap), 0, 0>>, init)

LoadAdd ==
    /\ Len(heap) = Len(ds.points) + 1
    /\ AddPoint(Len(heap))

WriteValue ==
    \E f \in FieldNames, t \in WriteTimes, v \in Values, c \in Keys :
        AddFieldValue(f, t, v, c)

QueryValues == \E f \in FieldNames : GetFieldValues(f)

NextFields ==
    \/ LoadConstruct
    \/ LoadAdd
    \/ WriteValue
    \/ ReadFields
    \/ QueryValues

SpecFields == Init /\ [][NextFields]_vars

Disagrees(flds, i) == DOMAIN flds[i].data # DOMAIN flds[1].data

\* C10: get_times() without a field, on a point that has fields, returns
\* the common time keys when every field has the time keys of the first
\* field; otherwise it raises the point time-inconsistency error naming the
\* first field and the first field (in field order) that disagrees with it.
\* Constructing a PointData never raises, also from time-inconsistent
\* initial fields.
C10_GetTimes ==
    /\ res.op = "PointData" => res.status = "ok"
    /\ (res.op = "get_times" /\ heap[res.obj].fields # <<>>) =>
        LET flds == heap[res.obj].fields
            bad == {i \in 2..Len(flds) : Disagrees(flds, i)}
        IN /\ bad = {} =>
                /\ res.out.status = "ok"
                /\ \A i \in 1..Len(flds) : res.out.times = DOMAIN flds[i].data
           /\ bad # {} =>
                /\ res.out.status = "PointTimeConsistencyError"
                /\ res.out.ref = flds[1].name
                /\ \E i \in bad :
                      /\ res.out.cur = flds[i].name
                      /\ \A k \in 2..(i - 1) : ~Disagrees(flds, k)

\* C10 witness: get_times() raised for a point whose second field agrees
\* with the first and whose third field does not.
C10_Witness ==
    /\ res.op = "get_times"
    /\ res.out.status = "PointTimeConsistencyError"
    /\ Len(heap[res.obj].fields) = 3
    /\ ~Disagrees(heap[res.obj].fields, 2)
    /\ res.out.cur = heap[res.obj].fields[3].name

(***************************************************************************)
(* Claims about the coordinate index, checked under SpecIndex.             *)
(***************************************************************************)
\* The coordinates of the points of a list of object identities.
CoordsOf(seq) == [i \in 1..Len(seq) |-> heap[seq[i]].coordinates]

PairwiseDistinct(seq) ==
    \A i, j \in 1..Len(seq) : i # j => seq[i] # seq[j]

\* C3: after any sequence of add_point calls with pairwise distinct
\* coordinates on an initially empty DataSet, len(dataset) is the number of
\* calls, dataset.points lists the points in insertion order,
\* get_point_by_coordinates returns the identical object for the coordinates
\* of every added point, and None for coordinates never added.
C3_AddPointLookup ==
    PairwiseDistinct(CoordsOf(added)) =>
        /\ DataSet_len(ds) = Len(added)
        /\ ds.points = added
        /\ \A i \in 1..Len(added) :
              get_point_by_coordinates(ds, heap[added[i]].coordinates)
                = added[i]
        /\ \A c \in Keys :
              (\A i \in 1..Len(added) : heap[added[i]].coordinates # c)
              => get_point_by_coordinates(ds, c) = None
        /\ res.op = "get_point_by_coordinates" =>
              res.out = get_point_by_coordinates(ds, res.c)

\* C3 witness: two points with distinct coordinates were added and a lookup
\* returned the second.
C3_Witness ==
    /\ Len(added) >= 2
    /\ PairwiseDistinct(CoordsOf(added))
    /\ res.op = "get_point_by_coordinates"
    /\ res.out = added[2]

\* The point inserted first among the added points at coordinates c.
FirstAddedAt(c) ==
    added[CHOOSE i \in 1..Len(added) :
            /\ heap[added[i]].coordinates = c
            /\ \A j \in 1..(i - 1) : heap[added[j]].coordinates # c]

FieldsAt(c) == heap[IndexGet(ds._point_index, c)].fields

\* C6 as stated: add_field_value on an existing point is first-write-wins:
\* a value already held at (field, time) is left unchanged, and an absent
\* slot is created and then reads the value.
C6_FirstWriteWins ==
    (res.op = "add_field_value" /\ res.status = "ok") =>
        Slot(FieldsAt(res.c), res.f, res.t) =
            IF res.old.status = "ok" THEN res.old
            ELSE [status |-> "ok", value |-> res.v]

\* C6 amended: add_field_value on an existing point is last-write-wins: it
\* creates the field's time-map if needed and stores the value at
\* (field, time), replacing a value already held there, so that
\* point[field, time] then reads the value of this call.
C6_LastWriteWins ==
    (res.op = "add_field_value" /\ res.status = "ok") =>
        /\ InIndex(ds._point_index, res.c)
        /\ HasField(FieldsAt(res.c), res.f)
        /\ Slot(FieldsAt(res.c), res.f, res.t)
             = [status |-> "ok", value |-> res.v]

\* C6 witness: add_field_value hit a slot holding another value, and the
\* slot now reads the new value.
C6_Witness ==
    /\ res.op = "add_field_value"
    /\ res.status = "ok"
    /\ res.old.status = "ok"
    /\ res.old.value # res.v
    /\ Slot(FieldsAt(res.c), res.f, res.t).value = res.v

\* C7: add_field_value with coordinates absent from the index fails with
\* the point-not-found error (KeyError) and changes nothing: no point is
\* created, the list, the index and the registry are unchanged, and no
\* point's fields change.
C7_MissingPoint ==
    [][(res'.op = "add_field_value" /\ ~InIndex(ds._point_index, res'.c))
        => /\ res'.status = "KeyError"
           /\ heap' = heap
           /\ ds' = ds
      ]_vars

\* C7 witness: add_field_value raised KeyError on a dataset that has points
\* with fields.
C7_Witness ==
    /\ res.op = "add_field_value"
    /\ res.status = "KeyError"
    /\ ~InIndex(ds._point_index, res.c)
    /\ \E i \in 1..Len(ds.points) : heap[ds.points[i]].fields # <<>>

\* The positions of a request whose coordinates are indexed and whose point
\* holds (f, t).
Hits(f, t, req) ==
    {i \in 1..Len(req) :
        /\ InIndex(ds._point_index, req[i])
        /\ Slot(FieldsAt(req[i]), f, t).status = "ok"}

\* The k-th smallest element of a set of positions.
Kth(S, k) == CHOOSE i \in S : Cardinality({j \in S : j < i}) = k - 1

\* The values a request must yield: those of its hits, in request order.
ValuesInRequestOrder(f, t, req, vals) ==
    /\ Len(vals) = Cardinality(Hits(f, t, req))
    /\ \A k \in 1..Len(vals) :
          vals[k] = Slot(FieldsAt(req[Kth(Hits(f, t, req), k)]), f, t).value

\* C8: for a DataSet of N >= 1 points with pairwise distinct coordinates
\* that all hold field f at time t, get_field_values(f, t) returns exactly N
\* values, the i-th being that of the i-th inserted point; with an explicit
\* coordinate list it returns the values of the hits in request order.
C8_AllValues ==
    \A f \in FieldNames, t \in Times :
        (/\ Len(ds.points) >= 1
         /\ PairwiseDistinct(CoordsOf(ds.points))
         /\ \A i \in 1..Len(ds.points) :
               Slot(heap[ds.points[i]].fields, f, t).status = "ok")
        => /\ LET r == get_field_values(ds, heap, f, t,
                                        get_all_coordinates(ds))
              IN /\ r.status = "ok"
                 /\ Len(r.values) = Len(ds.points)
                 /\ \A i \in 1..Len(ds.points) :
                       r.values[i]
                         = Slot(heap[ds.points[i]].fields, f, t).value
           /\ \A req \in RequestLists :
                 LET r == get_field_values(ds, heap, f, t, req)
                 IN /\ r.status = "ok"
                    /\ ValuesInRequestOrder(f, t, req, r.values)

\* C9: get_field_values raises exactly when the field is not in the field
\* registry, and then before collecting anything; for a registered field it
\* returns normally whatever the time and the request, skipping the
\* coordinates that are not in the dataset and the points that lack
\* (field, time).  Stated of the states a call has just produced: the
\* registry the call read is ds._fields.
C9_OnlyUnknownFieldRaises ==
    res.op = "get_field_values" =>
        /\ res.status \in {"ok", "NameError"}
        /\ res.status = "NameError" <=> res.f \notin ds._fields
        /\ \A t \in Times, req \in RequestLists :
              LET r == get_field_values(ds, heap, res.f, t, req)
              IN /\ r.status = res.status
                 /\ IF res.f \in ds._fields
                    THEN ValuesInRequestOrder(res.f, t, req, r.values)
                    ELSE r.values = <<>>

\* C9 witness: a call for a registered field returned normally, and a request
\* naming an absent coordinate and a point lacking the slot yields fewer
\* values than it names coordinates.
C9_Witness ==
    /\ res.op = "get_field_values"
    /\ res.status = "ok"
    /\ \E t \in Times, req \in RequestLists :
          /\ Len(req) = 2
          /\ ~InIndex(ds._point_index, req[1])
          /\ InIndex(ds._point_index, req[2])
          /\ Slot(FieldsAt(req[2]), res.f, t).status # "ok"
          /\ get_field_values(ds, heap, res.f, t, req).values = <<>>

(***************************************************************************)
(* Plane, Line and PlaneSet.  A PlaneSet is its _index dict, a sequence of *)
(* planes in insertion order keyed by (tag, fixed_coord); a plane holds    *)
(* its set of locations, its list of points (object identities) and its   *)
(* dict of lines in insertion order, keyed by line name.                   *)
(***************************************************************************)
SUPPORTED_PLANE_TAGS == {"XY", "XZ", "YX", "YZ", "ZX", "ZY"}

FlowDirections == {"X", "Y", "Z", "W"}

\* Plane(tag, fixed_coord): __post_init__ rejects an unsupported tag.
Plane(tag, fixed_coord) ==
    [status |-> IF tag \in SUPPORTED_PLANE_TAGS THEN "ok" ELSE "ValueError",
     obj |-> [tag |-> tag, fixed_coord |-> fixed_coord, _locations |-> {},
              _points |-> <<>>, _lines |-> <<>>]]

\* PlaneSet._make_key(plane)
_make_key(plane) == <<plane.tag, plane.fixed_coord>>

\* PlaneSet.get_plane(tag, fixed_coord): the position of the plane, or None.
get_plane(ps, tag, fixed_coord) ==
    IF \E i \in 1..Len(ps) : _make_key(ps[i]) = <<tag, fixed_coord>>
    THEN CHOOSE i \in 1..Len(ps) : _make_key(ps[i]) = <<tag, fixed_coord>>
    ELSE None

\* key in self._index
HasKey(ps, key) == \E i \in 1..Len(ps) : _make_key(ps[i]) = key

\* PlaneSet.add as it would be if a duplicate replaced the stored plane.
PlaneSet_add_replace(ps, value) ==
    [status |-> "ok",
     planes |-> IF HasKey(ps, _make_key(value))
                THEN [i \in 1..Len(ps) |->
                        IF _make_key(ps[i]) = _make_key(value)
                        THEN value ELSE ps[i]]
                ELSE Append(ps, value)]

\* PlaneSet.add(value)
PlaneSet_add(ps, value) ==
    IF \E i \in 1..Len(ps) : _make_key(ps[i]) = _make_key(value)
    THEN [status |-> "ValueError", planes |-> ps]
    ELSE [status |-> "ok", planes |-> Append(ps, value)]

\* get_or_create_plane as it would be if it stored a new plane each time.
get_or_create_plane_fresh(ps, tag, fixed_coord) ==
    LET made == Plane(tag, fixed_coord)
        at == get_plane(ps, tag, fixed_coord)
    IN IF made.status # "ok"
       THEN [status |-> made.status, planes |-> ps, at |-> None]
       ELSE IF at # None
       THEN [status |-> "ok", planes |-> [ps EXCEPT ![at] = made.obj],
             at |-> at]
       ELSE [status |-> "ok", planes |-> Append(ps, made.obj),
             at |-> Len(ps) + 1]

\* PlaneSet.get_or_create_plane(tag, fixed_coord): the set afterwards and
\* the position of the plane returned.
get_or_create_plane(ps, tag, fixed_coord) ==
    LET at == get_plane(ps, tag, fixed_coord)
        made == Plane(tag, fixed_coord)
        put == PlaneSet_add(ps, made.obj)
    IN IF at # None THEN [status |-> "ok", planes |-> ps, at |-> at]
       ELSE IF made.status # "ok"
            THEN [status |-> made.status, planes |-> ps, at |-> None]
       ELSE [status |-> put.status, planes |-> put.planes,
             at |-> Len(put.planes)]

\* Plane.add_point as it would be if a plane kept the first point it is
\* given and no other.
Plane_add_point_first_only(plane, o) ==
    IF plane._points # <<>>
    THEN [status |-> "ok", plane |-> plane]
    ELSE [status |-> "ok", plane |-> [plane EXCEPT !._points = Append(@, o)]]

\* Plane.add_point(point): a point object already stored is rejected.
Plane_add_point(plane, o) ==
    IF \E i \in 1..Len(plane._points) : plane._points[i] = o
    THEN [status |-> "ValueError", plane |-> plane]
    ELSE [status |-> "ok", plane |-> [plane EXCEPT !._points = Append(@, o)]]

\* Plane.add_location(coordinate)
Plane_add_location(plane, coordinate) ==
    [plane EXCEPT !._locations = @ \cup {coordinate}]

\* sorted(S) for a set of numbers.
RECURSIVE Sorted(_)
Sorted(S) ==
    IF S = {} THEN <<>>
    ELSE LET m == CHOOSE x \in S : \A y \in S : x <= y
         IN <<m>> \o Sorted(S \ {m})

\* Plane.locations
Plane_locations(plane) ==
    IF plane._locations = {}
    THEN [status |-> "ValueError", locations |-> <<>>]
    ELSE [status |-> "ok", locations |-> Sorted(plane._locations)]

\* Line(tag, plane_position, line_position); its name is its identity and
\* its store of loaded data, source -> field -> time -> array, starts empty.
Line(tag, plane_position, line_position) ==
    [name |-> <<tag, plane_position, line_position>>, tag |-> tag,
     plane_position |-> plane_position, line_position |-> line_position,
     flow_direction |-> "", _data |-> EmptyMap]

\* Line.set_line_info(flow_direction): the axis is derived from the tag and
\* the flow direction.
set_line_info(line, flow_direction) ==
    [line EXCEPT !.flow_direction = flow_direction]

\* Plane.add_line(line)
Plane_add_line(plane, line) ==
    IF \E k \in 1..Len(plane._lines) : plane._lines[k].name = line.name
    THEN [status |-> "ValueError", plane |-> plane]
    ELSE [status |-> "ok", plane |-> [plane EXCEPT !._lines = Append(@, line)]]

(***************************************************************************)
(* DataSet.points_to_planes.                                               *)
(***************************************************************************)
_direction_to_tags(_direction) ==
    CASE _direction = "X" -> [status |-> "ok", tags |-> <<"XY", "XZ">>]
      [] _direction = "Y" -> [status |-> "ok", tags |-> <<"YX", "YZ">>]
      [] _direction = "Z" -> [status |-> "ok", tags |-> <<"ZX", "ZY">>]
      [] OTHER -> [status |-> "ValueError", tags |-> <<>>]

\* _tag_to_coordinates as it would be with XY reading (y, x).
_tag_to_coordinates_xy_reads_y(_tag, _coordinates) ==
    CASE _tag \in {"XY", "XZ"} ->
            [status |-> "ok", fixed_coord |-> _coordinates[2],
             location |-> _coordinates[1]]
      [] _tag = "YZ" ->
            [status |-> "ok", fixed_coord |-> _coordinates[1],
             location |-> _coordinates[2]]
      [] OTHER ->
            [status |-> "ValueError", fixed_coord |-> None, location |-> None]

\* The component of index 0, 1, 2 of a Python tuple is component 1, 2, 3.
_tag_to_coordinates(_tag, _coordinates) ==
    CASE _tag = "XY" ->
            [status |-> "ok", fixed_coord |-> _coordinates[3],
             location |-> _coordinates[1]]
      [] _tag = "XZ" ->
            [status |-> "ok", fixed_coord |-> _coordinates[2],
             location |-> _coordinates[1]]
      [] _tag = "YZ" ->
            [status |-> "ok", fixed_coord |-> _coordinates[1],
             location |-> _coordinates[2]]
      [] OTHER ->
            [status |-> "ValueError", fixed_coord |-> None, location |-> None]

\* The loop body for one point and the loop over the points for one tag.
PlacePoint(ps, tag, h, o) ==
    LET tc == _tag_to_coordinates(tag, h[o].coordinates)
        got == get_or_create_plane(ps, tag, tc.fixed_coord)
        put == Plane_add_point(got.planes[got.at], o)
    IN IF tc.status # "ok"
       THEN [status |-> tc.status, error |-> "Unsupported tag", planes |-> ps]
       ELSE IF got.status # "ok"
       THEN [status |-> got.status, error |-> "Unsupported plane tag",
             planes |-> ps]
       ELSE IF put.status # "ok"
       THEN [status |-> put.status, error |-> "Point already exists in plane",
             planes |-> got.planes]
       ELSE [status |-> "ok", error |-> "",
             planes |-> [got.planes EXCEPT
                            ![got.at] = Plane_add_location(put.plane,
                                                           tc.location)]]

RECURSIVE PlacePoints(_, _, _, _)
PlacePoints(acc, tag, h, pts) ==
    IF acc.status # "ok" \/ pts = <<>> THEN acc
    ELSE PlacePoints(PlacePoint(acc.planes, tag, h, Head(pts)),
                     tag, h, Tail(pts))

RECURSIVE PlaceTags(_, _, _, _)
PlaceTags(acc, tags, h, pts) ==
    IF acc.status # "ok" \/ tags = <<>> THEN acc
    ELSE PlaceTags(PlacePoints(acc, Head(tags), h, pts), Tail(tags), h, pts)

\* The lines of one plane, one per location in sorted order.
RECURSIVE AddLines(_, _, _)
AddLines(acc, locs, flow_direction) ==
    IF acc.status # "ok" \/ locs = <<>> THEN acc
    ELSE LET line_obj == set_line_info(
                 Line(acc.plane.tag, acc.plane.fixed_coord, Head(locs)),
                 flow_direction)
         IN AddLines(Plane_add_line(acc.plane, line_obj), Tail(locs),
                     flow_direction)

\* The loop over the planes of the set, from position i on.
RECURSIVE AddAllLines(_, _, _)
AddAllLines(acc, i, flow_direction) ==
    IF acc.status # "ok" \/ i > Len(acc.planes) THEN acc
    ELSE LET locs == Plane_locations(acc.planes[i])
             done == AddLines([status |-> "ok", plane |-> acc.planes[i]],
                              locs.locations, flow_direction)
         IN IF locs.status # "ok"
            THEN [status |-> locs.status, error |-> "no line positions",
                  planes |-> acc.planes]
            ELSE IF done.status # "ok"
            THEN [status |-> done.status, error |-> "Line already exists",
                  planes |-> acc.planes]
            ELSE AddAllLines([acc EXCEPT !.planes[i] = done.plane], i + 1,
                             flow_direction)

\* points_to_planes(flow_direction): the PlaneSet returned, or the error.
points_to_planes(d, h, flow_direction) ==
    LET tags == _direction_to_tags(flow_direction)
        placed == PlaceTags([status |-> "ok", error |-> "", planes |-> <<>>],
                            tags.tags, h, d.points)
    IN IF tags.status # "ok"
       THEN [status |-> tags.status, error |-> "Unsupported flow direction",
             planes |-> <<>>]
       ELSE AddAllLines(placed, 1, flow_direction)

\* planes = ds.points_to_planes(flow_direction); a call that raises returns
\* no PlaneSet.
PointsToPlanes(flow_direction) ==
    LET r == points_to_planes(ds, heap, flow_direction)
    IN /\ planes' = IF r.status = "ok" THEN r.planes ELSE <<>>
       /\ res' = [op |-> "points_to_planes",
                  flow_direction |-> flow_direction,
                  status |-> r.status, error |-> r.error]
       /\ UNCHANGED <<heap, ds, added, exp_ds, source>>

(***************************************************************************)
(* SpecPlanes: points at any coordinates, each constructed and added to    *)
(* the dataset as the loaders do, points added once more, and the dataset  *)
(* converted to planes for any flow direction.                             *)
(***************************************************************************)
InDataSet(o) == \E i \in 1..Len(ds.points) : ds.points[i] = o

MakePlanePoint ==
    /\ Len(heap) < MaxPoints
    /\ \A o \in 1..Len(heap) : InDataSet(o)
    /\ \E c \in Coordinates : Construct(c, <<>>)

AddPlanePoint ==
    /\ Len(ds.points) < MaxPoints
    /\ \E o \in 1..Len(heap) : AddPoint(o)

ConvertToPlanes == \E d \in FlowDirections : PointsToPlanes(d)

NextPlanes == MakePlanePoint \/ AddPlanePoint \/ ConvertToPlanes

SpecPlanes == Init /\ [][NextPlanes]_vars

(***************************************************************************)
(* Claims about points_to_planes, checked under SpecPlanes.                *)
(***************************************************************************)
\* The values that the points of the dataset take on an axis (1, 2, 3).
AxisValues(axis) ==
    {heap[ds.points[i]].coordinates[axis] : i \in 1..Len(ds.points)}

\* The x values of the points whose coordinate on an axis is val.
XsWhere(axis, val) ==
    {heap[ds.points[i]].coordinates[1] :
        i \in {j \in 1..Len(ds.points) :
                  heap[ds.points[j]].coordinates[axis] = val}}

PlanesTagged(tag) == {i \in 1..Len(planes) : planes[i].tag = tag}

\* The planes of a tag are one per value of the axis, and each holds one
\* line per distinct x of the points with that value.
OnePlanePerValue(tag, axis) ==
    /\ Cardinality(PlanesTagged(tag)) = Cardinality(AxisValues(axis))
    /\ {planes[i].fixed_coord : i \in PlanesTagged(tag)} = AxisValues(axis)
    /\ \A i \in PlanesTagged(tag) :
          LET xs == XsWhere(axis, planes[i].fixed_coord)
              lines == planes[i]._lines
          IN /\ Len(lines) = Cardinality(xs)
             /\ {lines[k].line_position : k \in 1..Len(lines)} = xs
             /\ \A k \in 1..Len(lines) :
                   /\ lines[k].tag = tag
                   /\ lines[k].plane_position = planes[i].fixed_coord

PlanesForX ==
    /\ res.status = "ok"
    /\ Len(planes) = Cardinality(AxisValues(3)) + Cardinality(AxisValues(2))
    /\ \A i \in 1..Len(planes) : planes[i].tag \in {"XY", "XZ"}
    /\ OnePlanePerValue("XY", 3)
    /\ OnePlanePerValue("XZ", 2)

\* C1 as stated: points_to_planes('X') on any dataset whose points span K
\* distinct z and J distinct y returns K planes tagged XY, one per z, and J
\* planes tagged XZ, one per y, K + J in total, each holding exactly one
\* line per distinct x among its points.
C1_PlanesForX ==
    (res.op = "points_to_planes" /\ res.flow_direction = "X") => PlanesForX

\* C1 amended: the same, for a dataset whose points are pairwise distinct
\* PointData objects (a dataset holding one object twice makes the call
\* raise).
C1_PlanesForXDistinctObjects ==
    (/\ res.op = "points_to_planes"
     /\ res.flow_direction = "X"
     /\ PairwiseDistinct(ds.points)) => PlanesForX

\* C1 witness: two distinct points with different z and x and the same y
\* were converted: two XY planes, and one XZ plane of two lines.
C1_Witness ==
    /\ res.op = "points_to_planes"
    /\ res.flow_direction = "X"
    /\ res.status = "ok"
    /\ PairwiseDistinct(ds.points)
    /\ Cardinality(AxisValues(3)) = 2
    /\ Cardinality(AxisValues(2)) = 1
    /\ Len(planes) = 3
    /\ \E i \in PlanesTagged("XZ") : Len(planes[i]._lines) = 2

\* The two plane tags that a flow direction is mapped to.
MappedTags(flow_direction) ==
    CASE flow_direction = "X" -> {"XY", "XZ"}
      [] flow_direction = "Y" -> {"YX", "YZ"}
      [] flow_direction = "Z" -> {"ZX", "ZY"}

\* C2: for each of the flow directions X, Y and Z, points_to_planes on a
\* non-empty dataset (of distinct point objects) returns a PlaneSet whose
\* planes carry exactly the two tags the direction is mapped to.
C2_MappedTags ==
    (/\ res.op = "points_to_planes"
     /\ res.flow_direction \in {"X", "Y", "Z"}
     /\ Len(ds.points) >= 1
     /\ PairwiseDistinct(ds.points))
    => /\ res.status = "ok"
       /\ {planes[i].tag : i \in 1..Len(planes)}
            = MappedTags(res.flow_direction)

(***************************************************************************)
(* DataSet.check_times and DataSet.get_all_times.                          *)
(***************************************************************************)
\* check_times as it would be if a point passed whenever its times are among
\* the reference times.
check_times_subset(d, h) ==
    IF d.points = <<>>
    THEN [status |-> "ValueError", error |-> "empty dataset", at |-> None]
    ELSE IF h[d.points[1]].fields = <<>>
    THEN [status |-> "ValueError", error |-> "no field data", at |-> 1]
    ELSE LET ref == get_times(h[d.points[1]].fields)
             bad == {i \in 2..Len(d.points) :
                        LET cur == get_times(h[d.points[i]].fields)
                        IN cur.status # "ok"
                           \/ ~(cur.times \subseteq ref.times)}
         IN IF ref.status # "ok"
            THEN [status |-> ref.status, error |-> "first point", at |-> 1]
            ELSE IF bad = {}
            THEN [status |-> "ok", error |-> "", at |-> None]
            ELSE LET i == CHOOSE j \in bad : \A k \in bad : j <= k
                     cur == get_times(h[d.points[i]].fields)
                 IN [status |-> IF cur.status # "ok" THEN cur.status
                                ELSE "TimeConsistencyError",
                     error |-> "point", at |-> i]

\* DataSet.check_times(): the outcome, and the position in the list of the
\* point at which it raised.  An error of get_times that the except clause
\* does not name propagates as it is; one it names is raised again.
check_times(d, h) ==
    IF d.points = <<>>
    THEN [status |-> "ValueError", error |-> "empty dataset", at |-> None]
    ELSE IF h[d.points[1]].fields = <<>>
    THEN [status |-> "ValueError", error |-> "no field data", at |-> 1]
    ELSE LET ref == get_times(h[d.points[1]].fields)
             bad == {i \in 2..Len(d.points) :
                        LET cur == get_times(h[d.points[i]].fields)
                        IN cur.status # "ok" \/ cur.times # ref.times}
         IN IF ref.status # "ok"
            THEN [status |-> ref.status, error |-> "first point", at |-> 1]
            ELSE IF bad = {}
            THEN [status |-> "ok", error |-> "", at |-> None]
            ELSE LET i == CHOOSE j \in bad : \A k \in bad : j <= k
                     cur == get_times(h[d.points[i]].fields)
                 IN [status |-> IF cur.status # "ok" THEN cur.status
                                ELSE "TimeConsistencyError",
                     error |-> "point", at |-> i]

\* get_all_times as it would be if it collected the times of every point.
get_all_times_every_point(d, h) ==
    IF d.points = <<>>
    THEN [status |-> "ValueError", error |-> "empty dataset", times |-> {}]
    ELSE IF h[d.points[1]].fields = <<>>
    THEN [status |-> "ValueError", error |-> "no field data", times |-> {}]
    ELSE [status |-> "ok", error |-> "",
          times |-> UNION {get_times(h[d.points[i]].fields).times :
                              i \in 1..Len(d.points)}]

\* DataSet.get_all_times(): the time keys returned (as a set), or the error.
get_all_times(d, h) ==
    IF d.points = <<>>
    THEN [status |-> "ValueError", error |-> "empty dataset", times |-> {}]
    ELSE IF h[d.points[1]].fields = <<>>
    THEN [status |-> "ValueError", error |-> "no field data", times |-> {}]
    ELSE LET ref == get_times(h[d.points[1]].fields)
         IN [status |-> ref.status,
             error |-> IF ref.status = "ok" THEN "" ELSE "first point",
             times |-> ref.times]

\* ds.check_times()
CheckTimes ==
    LET r == check_times(ds, heap)
    IN /\ res' = [op |-> "check_times", status |-> r.status,
                  error |-> r.error, at |-> r.at]
       /\ UNCHANGED <<heap, ds, planes, added, exp_ds, source>>

\* ds.get_all_times()
GetAllTimes ==
    LET r == get_all_times(ds, heap)
    IN /\ res' = [op |-> "get_all_times", status |-> r.status,
                  error |-> r.error, times |-> r.times]
       /\ UNCHANGED <<heap, ds, planes, added, exp_ds, source>>

(***************************************************************************)
(* SpecTimes: a dataset of points with no field, one field or two fields   *)
(* over any time keys, each constructed and added as the loaders do, and   *)
(* its times checked and read.                                             *)
(***************************************************************************)
MaxTimed == 3

\* Time-maps over any set of times; the values play no part.
KeyMaps == {[t \in T |-> 1] : T \in SUBSET Times}

TimedInit ==
    {<<>>}
    \cup {<<[name |-> "U", isdict |-> TRUE, scalar |-> None, dict |-> m]>> :
             m \in KeyMaps}
    \cup {<<[name |-> "U", isdict |-> TRUE, scalar |-> None, dict |-> m],
            [name |-> "V", isdict |-> TRUE, scalar |-> None, dict |-> n]>> :
             m \in KeyMaps, n \in KeyMaps}

\* current_point = PointData(coordinates, fields_values);
\* dataset.add_point(current_point)
LoadPoint(coordinates, init) ==
    LET r == PointData_init(coordinates, init)
        h == Append(heap, r.obj)
    IN /\ r.status = "ok"
       /\ heap' = h
       /\ ds' = add_point(ds, h, Len(h))
       /\ added' = Append(added, Len(h))
       /\ res' = [op |-> "load", obj |-> Len(h)]
       /\ UNCHANGED <<planes, exp_ds, source>>

LoadTimedPoint ==
    /\ Len(ds.points) < MaxTimed
    /\ \E init \in TimedInit : LoadPoint(<<Len(heap), 0, 0>>, init)

NextTimes == LoadTimedPoint \/ CheckTimes \/ GetAllTimes

SpecTimes == Init /\ [][NextTimes]_vars

(***************************************************************************)
(* Claims about check_times and get_all_times, checked under SpecTimes.    *)
(***************************************************************************)
HasFields(o) == heap[o].fields # <<>>

\* The fields of a point all have the same time keys.
AgreesInternally(o) ==
    \A i \in 1..Len(heap[o].fields) :
        DOMAIN heap[o].fields[i].data = DOMAIN heap[o].fields[1].data

\* The time keys a point holds (none for a point without fields).
TimeKeys(o) ==
    UNION {DOMAIN heap[o].fields[i].data : i \in 1..Len(heap[o].fields)}

\* The positions of the points whose time keys differ from the first's.
Mismatching ==
    {i \in 2..Len(ds.points) :
        TimeKeys(ds.points[i]) # TimeKeys(ds.points[1])}

\* check_times returned exactly when no point mismatches, and otherwise
\* raised the dataset-level error at the earliest mismatching point.
ChecksAgainstFirst ==
    IF Mismatching = {}
    THEN res.status = "ok"
    ELSE /\ res.status = "TimeConsistencyError"
         /\ res.at \in Mismatching
         /\ \A i \in Mismatching : res.at <= i

FailsWithoutData ==
    /\ ds.points = <<>> =>
          res.status = "ValueError" /\ res.error = "empty dataset"
    /\ (Len(ds.points) >= 1 /\ ~HasFields(ds.points[1])) =>
          res.status = "ValueError" /\ res.error = "no field data"

\* C12 as stated: check_times and get_all_times fail with the empty-dataset
\* error without points and with the missing-field-data error when the first
\* point has no fields; otherwise get_all_times returns the time keys of the
\* first point, whatever the other points hold.
C12_FirstPointTimes ==
    /\ res.op \in {"check_times", "get_all_times"} => FailsWithoutData
    /\ (/\ res.op = "get_all_times"
        /\ Len(ds.points) >= 1
        /\ HasFields(ds.points[1]))
       => /\ res.status = "ok"
          /\ res.times = TimeKeys(ds.points[1])

\* C12 amended: the same, except that get_all_times returns the time keys
\* of the first point when that point's fields agree on their time keys, and
\* raises PointTimeConsistencyError when they disagree.
C12_FirstPointTimesIfAgreeing ==
    /\ res.op \in {"check_times", "get_all_times"} => FailsWithoutData
    /\ (/\ res.op = "get_all_times"
        /\ Len(ds.points) >= 1
        /\ HasFields(ds.points[1]))
       => IF AgreesInternally(ds.points[1])
          THEN /\ res.status = "ok"
               /\ res.times = TimeKeys(ds.points[1])
          ELSE res.status = "PointTimeConsistencyError"

\* C12 witness: get_all_times returned the time keys of the first point of
\* a dataset whose second point holds other time keys.
C12_Witness ==
    /\ res.op = "get_all_times"
    /\ res.status = "ok"
    /\ Len(ds.points) >= 2
    /\ res.times = TimeKeys(ds.points[1])
    /\ res.times # {}
    /\ TimeKeys(ds.points[2]) # res.times

(***************************************************************************)
(* PlaneSet.add, discard and get_or_create_plane as steps on the PlaneSet  *)
(* held in planes.                                                         *)
(***************************************************************************)
\* PlaneSet.discard(value): self._index.pop(key, None)
PlaneSet_discard(ps, value) ==
    SelectSeq(ps, LAMBDA q : _make_key(q) # _make_key(value))

\* planes.add(value)
PlaneSetAdd(value) ==
    LET r == PlaneSet_add(planes, value)
    IN /\ planes' = r.planes
       /\ res' = [op |-> "add", key |-> _make_key(value),
                  status |-> r.status, at |-> None]
       /\ UNCHANGED <<heap, ds, added, exp_ds, source>>

\* planes.discard(value)
PlaneSetDiscard(value) ==
    /\ planes' = PlaneSet_discard(planes, value)
    /\ res' = [op |-> "discard", key |-> _make_key(value),
               status |-> "ok", at |-> None]
    /\ UNCHANGED <<heap, ds, added, exp_ds, source>>

\* plane = planes.get_or_create_plane(tag, fixed_coord); at is the position
\* of the plane returned.
PlaneSetGetOrCreate(tag, fixed_coord) ==
    LET r == get_or_create_plane(planes, tag, fixed_coord)
    IN /\ planes' = r.planes
       /\ res' = [op |-> "get_or_create_plane",
                  key |-> <<tag, fixed_coord>>,
                  status |-> r.status, at |-> r.at]
       /\ UNCHANGED <<heap, ds, added, exp_ds, source>>

\* planes.get_plane(tag, fixed_coord).add_location(coordinate)
PlaneAddLocation(i, coordinate) ==
    /\ planes' = [planes EXCEPT ![i] = Plane_add_location(@, coordinate)]
    /\ res' = [op |-> "add_location", key |-> _make_key(planes[i]),
               status |-> "ok", at |-> i]
    /\ UNCHANGED <<heap, ds, added, exp_ds, source>>

(***************************************************************************)
(* SpecPlaneSet: planes offered to add and discard in any state, planes    *)
(* got or created under any tag, and locations stored in the planes held.  *)
(***************************************************************************)
MaxPlanes == 2

\* Tags passed by the callers; QQ is not a supported tag.
PlaneTags == {"XY", "XZ", "QQ"}

Locations == {0, 1}

\* Plane objects a caller may hold: a supported tag, any stored locations.
PlaneValues ==
    {[Plane(tag, fixed_coord).obj EXCEPT !._locations = locs] :
        tag \in PlaneTags \cap SUPPORTED_PLANE_TAGS,
        fixed_coord \in Axis,
        locs \in SUBSET Locations}

AddPlane ==
    \E value \in PlaneValues :
        /\ Len(planes) < MaxPlanes \/ HasKey(planes, _make_key(value))
        /\ PlaneSetAdd(value)

DiscardPlane == \E value \in PlaneValues : PlaneSetDiscard(value)

GetOrCreatePlane ==
    \E tag \in PlaneTags, fixed_coord \in Axis :
        /\ Len(planes) < MaxPlanes \/ HasKey(planes, <<tag, fixed_coord>>)
        /\ PlaneSetGetOrCreate(tag, fixed_coord)

StoreLocation ==
    \E i \in 1..Len(planes), coordinate \in Locations :
        PlaneAddLocation(i, coordinate)

NextPlaneSet == AddPlane \/ DiscardPlane \/ GetOrCreatePlane \/ StoreLocation

SpecPlaneSet == Init /\ [][NextPlaneSet]_vars

(***************************************************************************)
(* Claims about PlaneSet, checked under SpecPlaneSet.                      *)
(***************************************************************************)
\* C13: get_or_create_plane with a supported tag never raises; when the key
\* is already present it returns the plane stored under it and leaves the
\* set, and all that the plane stores, as they were, so that repeated calls
\* return the same plane; when the key is absent it stores one new, empty
\* plane and returns it.  Any number of calls grow the set by one plane.
C13_GetOrCreateIdempotent ==
    [][(/\ res'.op = "get_or_create_plane"
        /\ res'.key[1] \in SUPPORTED_PLANE_TAGS)
       => /\ res'.status = "ok"
          /\ res'.at \in 1..Len(planes')
          /\ _make_key(planes'[res'.at]) = res'.key
          /\ IF HasKey(planes, res'.key)
             THEN planes' = planes
             ELSE /\ Len(planes') = Len(planes) + 1
                  /\ \A i \in 1..Len(planes) : planes'[i] = planes[i]
                  /\ res'.at = Len(planes')
                  /\ planes'[res'.at]._locations = {}
                  /\ planes'[res'.at]._points = <<>>
                  /\ planes'[res'.at]._lines = <<>>
      ]_vars

\* C13 witness: get_or_create_plane returned a plane that was stored before
\* the call, with the locations it held, next to another plane.
C13_Witness ==
    /\ res.op = "get_or_create_plane"
    /\ res.status = "ok"
    /\ Len(planes) = 2
    /\ planes[res.at]._locations = {0, 1}

NoDuplicateKeys ==
    \A i, j \in 1..Len(planes) :
        i # j => _make_key(planes[i]) # _make_key(planes[j])

\* C14: after any sequence of add, get_or_create_plane and discard no two
\* planes of the set share a (tag, fixed_coord) key; add of a plane whose
\* key is present raises the duplicate error and leaves the set as it was,
\* the plane stored first included; discard of a plane whose key is absent
\* changes nothing.
C14_UniqueKeys ==
    [][/\ NoDuplicateKeys'
       /\ (res'.op = "add" /\ HasKey(planes, res'.key))
          => res'.status = "ValueError" /\ planes' = planes
       /\ (res'.op = "add" /\ ~HasKey(planes, res'.key))
          => /\ res'.status = "ok"
             /\ Len(planes') = Len(planes) + 1
             /\ \A i \in 1..Len(planes) : planes'[i] = planes[i]
       /\ (res'.op = "discard" /\ ~HasKey(planes, res'.key))
          => res'.status = "ok" /\ planes' = planes
      ]_vars

\* C14 witness: add raised on a key that the set of two planes holds, the
\* stored plane still holding its locations.
C14_Witness ==
    /\ res.op = "add"
    /\ res.status = "ValueError"
    /\ Len(planes) = 2
    /\ \E i \in 1..Len(planes) :
          _make_key(planes[i]) = res.key /\ planes[i]._locations # {}

(***************************************************************************)
(* quantitative/computations.py.  A list of values is a sequence; the      *)
(* values are integers, so that a mean is below ZERO_THRESHOLD exactly     *)
(* when the sum is 0 and no value is NaN or Inf.  The result of            *)
(* compute_metrics is taken by its keys: the set of <<metric, time,        *)
(* field>> for which a value was stored.                                   *)
(***************************************************************************)
NMSE == "NMSE"
MG == "MG"
GV == "GV"
NRE == "NRE"

\* metrics.items(), in the order of the dict literal
MetricOrder == <<NMSE, MG, GV>>

\* f"{MetricNames.NRE}_{f}"
NREName(f) == NRE \o "_" \o f

\* str.lower() on the source labels in use
Lower(label) == IF label = "Experiment" THEN "experiment" ELSE label

Abs(x) == IF x < 0 THEN 0 - x ELSE x

RECURSIVE SumSeq(_)
SumSeq(xs) == IF xs = <<>> THEN 0 ELSE Head(xs) + SumSeq(Tail(xs))

\* numpy broadcasting of two one-dimensional arrays: the common length, or
\* None when the shapes do not match.
BroadcastLen(m, n) ==
    IF m = n THEN m
    ELSE IF m = 1 THEN n
    ELSE IF n = 1 THEN m
    ELSE None

\* element i of an array broadcast to a longer one
Broadcast(xs, i) == IF Len(xs) = 1 THEN xs[1] ELSE xs[i]

\* _compute_relative_errors(experiment, predictions):
\* npabs(experiment - predictions) / npabs(experiment).  Every experiment
\* value in use has absolute value 1, so the quotient is exact.
_compute_relative_errors(experiment, predictions) ==
    LET n == BroadcastLen(Len(experiment), Len(predictions))
    IN IF experiment = <<>> \/ predictions = <<>> \/ n = None
       THEN [status |-> "ValueError", contributions |-> <<>>]
       ELSE [status |-> "ok",
             contributions |->
                 [i \in 1..n |->
                     Abs(Broadcast(experiment, i) - Broadcast(predictions, i))
                         \div Abs(Broadcast(experiment, i))]]

\* The outcome of the metric functions as it would be if they checked the
\* lengths alone.
MetricStatus_lengths_only(metric, predictions, experiment) ==
    IF predictions = <<>> \/ experiment = <<>>
       \/ Len(predictions) # Len(experiment)
    THEN "ValueError" ELSE "ok"

\* The outcome of _compute_nmse, _compute_mean_bias and
\* _compute_geometric_variance: a value, or ValueError.
MetricStatus(metric, predictions, experiment) ==
    IF predictions = <<>> \/ experiment = <<>>
       \/ Len(predictions) # Len(experiment)
    THEN "ValueError"
    ELSE IF metric = NMSE
    THEN IF SumSeq(predictions) = 0 \/ SumSeq(experiment) = 0
         THEN "ValueError" ELSE "ok"
    ELSE IF \/ \E i \in 1..Len(predictions) : predictions[i] <= 0
            \/ \E i \in 1..Len(experiment) : experiment[i] <= 0
         THEN "ValueError" ELSE "ok"

\* The loop of store_individual_contribution over the points from idx on.
RECURSIVE StoreContributions(_, _, _, _, _, _)
StoreContributions(h, points, name, time, contributions, idx) ==
    IF idx > Len(points) THEN h
    ELSE StoreContributions(
             [h EXCEPT ![points[idx]].fields =
                 PointData_setitem(@, name, time, contributions[idx])],
             points, name, time, contributions, idx + 1)

\* store_individual_contribution(dataset, name, time, contributions)
store_individual_contribution(d, h, name, time, contributions) ==
    IF Len(d.points) # Len(contributions)
    THEN [status |-> "ValueError", heap |-> h, ds |-> d]
    ELSE LET h2 == StoreContributions(h, d.points, name, time,
                                      contributions, 1)
         IN [status |-> "ok", heap |-> h2,
             ds |-> [d EXCEPT !._fields = DataSet_fields(d, h2) \cup {name}]]

\* experiment_data_cache[f] as it would be if the experiment values were
\* fetched at the coordinates of the experiment itself.
ExperimentCache_own_coordinates(dexp, dsim, h, f) ==
    LET r == get_field_values(dexp, h, f, 0, get_all_coordinates(dexp))
    IN [none |-> r.status # "ok", values |-> r.values]

\* experiment_data_cache[f]: the experiment values of f at time 0 at the
\* coordinates of the simulation, or None when get_field_values raised.
ExperimentCache(dexp, dsim, h, f) ==
    LET r == get_field_values(dexp, h, f, 0, get_all_coordinates(dsim))
    IN [none |-> r.status # "ok", values |-> r.values]

\* The metrics that give a value for these predictions and experiment values.
ComputedMetrics(predictions, experiment) ==
    {MetricOrder[k] : k \in
        {j \in 1..Len(MetricOrder) :
            MetricStatus(MetricOrder[j], predictions, experiment) = "ok"}}

\* The body of the loop as it would be if a pair that gives no value
\* discarded the values stored so far.
ProcessPair_discarding(acc, dexp, h0, f, t) ==
    LET cache == ExperimentCache(dexp, acc.sim, h0, f)
        p == get_field_values(acc.sim, acc.heap, f, t,
                              get_all_coordinates(acc.sim))
        computed == IF cache.none \/ p.status # "ok" THEN {}
                    ELSE ComputedMetrics(p.values, cache.values)
    IN [acc EXCEPT !.results =
           IF computed = {} THEN {}
           ELSE @ \cup {<<m, t, f>> : m \in computed}]

\* One pass of the body of "for t in time_values" for field f; acc holds the
\* heap, the simulation dataset and the results so far.
ProcessPair(acc, dexp, h0, f, t) ==
    LET cache == ExperimentCache(dexp, acc.sim, h0, f)
        p == get_field_values(acc.sim, acc.heap, f, t,
                              get_all_coordinates(acc.sim))
        read == [acc EXCEPT !.sim._fields = DataSet_fields(acc.sim, acc.heap)]
        rel == _compute_relative_errors(cache.values, p.values)
        st == store_individual_contribution(read.sim, read.heap, NREName(f),
                                            t, rel.contributions)
    IN IF cache.none \/ cache.values = <<>> THEN acc
       ELSE IF p.status # "ok" \/ p.values = <<>> THEN read
       ELSE IF rel.status # "ok" \/ st.status # "ok" THEN read
       ELSE [heap |-> st.heap, sim |-> st.ds,
             results |-> acc.results \cup
                 {<<m, t, f>> : m \in ComputedMetrics(p.values, cache.values)}]

\* The loops over fields and time_values, from field i and time j on.
RECURSIVE ProcessPairs(_, _, _, _, _, _, _)
ProcessPairs(acc, dexp, h0, fields, time_values, i, j) ==
    IF i > Len(fields) THEN acc
    ELSE IF j > Len(time_values)
    THEN ProcessPairs(acc, dexp, h0, fields, time_values, i + 1, 1)
    ELSE ProcessPairs(ProcessPair(acc, dexp, h0, fields[i], time_values[j]),
                      dexp, h0, fields, time_values, i, j + 1)

\* The check of the sources as it would be if it never failed.
no_experiment_source_ignored(src) == FALSE

\* Neither dataset has 'experiment' as its source.
no_experiment_source(src) ==
    Lower(src.exp) # "experiment" /\ Lower(src.sim) # "experiment"

\* compute_metrics(dataset_from_exp, dataset_from_sim, time_values, fields);
\* src holds the source labels of the two datasets.
compute_metrics(dexp, dsim, h, src, time_values, fields) ==
    LET unchanged == [heap |-> h, exp |-> dexp, sim |-> dsim, results |-> {}]
        fail(status, error) ==
            [status |-> status, error |-> error] @@ unchanged
    IN IF DataSet_len(dexp) = 0 THEN fail("ValueError", "experiment empty")
       ELSE IF DataSet_len(dsim) = 0
       THEN fail("ValueError", "simulation empty")
       ELSE
       LET ref_point == h[dsim.points[1]]
           flds == IF fields.none
                   THEN [k \in 1..Len(ref_point.fields) |->
                            ref_point.fields[k].name]
                   ELSE fields.list
           gt == get_times(ref_point.fields)
           tms == IF time_values.none THEN Sorted(gt.times)
                  ELSE time_values.list
           done == ProcessPairs([heap |-> h, sim |-> dsim, results |-> {}],
                                dexp, h, flds, tms, 1, 1)
           dexp2 == IF flds = <<>> THEN dexp
                    ELSE [dexp EXCEPT !._fields = DataSet_fields(dexp, h)]
       IN IF fields.none /\ ref_point.fields = <<>>
          THEN fail("ValueError", "no fields")
          ELSE IF time_values.none /\ gt.status # "ok"
          THEN fail(gt.status, "get_times")
          ELSE IF time_values.none /\ gt.times = {}
          THEN fail("ValueError", "no time values")
          ELSE IF no_experiment_source(src)
          THEN fail("ValueError", "no experiment source")
          ELSE IF done.results = {}
          THEN [status |-> "ValueError", error |-> "no valid metrics",
                heap |-> done.heap, exp |-> dexp2, sim |-> done.sim,
                results |-> {}]
          ELSE [status |-> "ok", error |-> "", heap |-> done.heap,
                exp |-> dexp2, sim |-> done.sim, results |-> done.results]

(***************************************************************************)
(* compute_metrics and the calls around it as steps.                       *)
(***************************************************************************)
\* dataset_from_exp = DataSet(source=exp); dataset_from_sim = DataSet(source=sim)
MakeDataSets(exp, sim) ==
    /\ exp_ds' = EmptyDataSet
    /\ ds' = EmptyDataSet
    /\ source' = [exp |-> exp, sim |-> sim]
    /\ res' = [op |-> "DataSet"]
    /\ UNCHANGED <<heap, planes, added>>

\* point = PointData(coordinates, fields_values); dataset_from_exp.add_point(point)
LoadExperimentPoint(coordinates, init) ==
    LET r == PointData_init(coordinates, init)
        h == Append(heap, r.obj)
    IN /\ r.status = "ok"
       /\ heap' = h
       /\ exp_ds' = add_point(exp_ds, h, Len(h))
       /\ res' = [op |-> "load_experiment", obj |-> Len(h)]
       /\ UNCHANGED <<ds, planes, added, source>>

\* dataset_from_sim.add_field_value(f, t, v, c)
ReviseValue(f, t, v, c) ==
    LET r == add_field_value(ds, heap, f, t, v, c)
    IN /\ heap' = r.heap
       /\ res' = [op |-> "revise", status |-> r.status]
       /\ UNCHANGED <<ds, planes, added, exp_ds, source>>

\* compute_metrics(exp_ds, ds, time_values, fields)
ComputeMetrics(time_values, fields) ==
    \E r \in {compute_metrics(exp_ds, ds, heap, source, time_values, fields)} :
       /\ heap' = r.heap
       /\ ds' = r.sim
       /\ exp_ds' = r.exp
       /\ res' = [op |-> "compute_metrics", status |-> r.status,
                  error |-> r.error, results |-> r.results,
                  time_values |-> time_values, fields |-> fields]
       /\ UNCHANGED <<planes, added, source>>

(***************************************************************************)
(* SpecMetrics: an experiment dataset and then a simulation dataset are    *)
(* loaded point by point along a line, the k-th point of each at           *)
(* <<k - 1, 0, 0>>, the simulation until its field registry is first       *)
(* built; simulation values are revised and the metrics computed at any    *)
(* moment.                                                                 *)
(***************************************************************************)
MetricValues == {0 - 1, 1}

SourceLabels ==
    {<<"experiment", "simulation">>, <<"Experiment", "simulation">>,
     <<"simulation", "simulation">>}

\* fields_values of an experiment point: nothing, or U at time 0
ExperimentInit ==
    {<<>>}
    \cup {<<[name |-> "U", isdict |-> TRUE, scalar |-> None,
             dict |-> [t \in {0} |-> v]]>> : v \in MetricValues}

\* fields_values of a simulation point: U at time 0, or U at times 0 and 1
SimulationInit ==
    {<<[name |-> "U", isdict |-> TRUE, scalar |-> None, dict |-> m]>> :
        m \in [{0} -> MetricValues] \cup {n \in [Times -> MetricValues] : n[0] = 1}}

NotGiven == [none |-> TRUE, list |-> <<>>]

Given(list) == [none |-> FALSE, list |-> list]

TimeArguments == {NotGiven, Given(<<0, 1>>)}

FieldArguments == {NotGiven, Given(<<"U">>)}

NameDataSets ==
    /\ res.op = "init"
    /\ \E s \in SourceLabels : MakeDataSets(s[1], s[2])

LoadExperiment ==
    /\ Len(exp_ds.points) < MaxPoints
    /\ Len(ds.points) = 0
    /\ \E init \in ExperimentInit :
           LoadExperimentPoint(<<Len(exp_ds.points), 0, 0>>, init)

LoadSimulation ==
    /\ Len(ds.points) < MaxPoints
    /\ ds._fields = {}
    /\ \E init \in SimulationInit : LoadPoint(<<Len(ds.points), 0, 0>>, init)

Revise ==
    /\ Len(ds.points) > 0
    /\ \E v \in MetricValues : ReviseValue("U", 0, v, <<0, 0, 0>>)

Compute ==
    \E time_values \in TimeArguments, fields \in FieldArguments :
        ComputeMetrics(time_values, fields)

NextMetrics ==
    NameDataSets \/ LoadExperiment \/ LoadSimulation \/ Revise \/ Compute

SpecMetrics == Init /\ [][NextMetrics]_vars

(***************************************************************************)
(* Claims about compute_metrics, checked under SpecMetrics.                *)
(***************************************************************************)
IsExperiment(label) == label \in {"experiment", "Experiment", "EXPERIMENT"}

\* The step is a call of compute_metrics.
IsCompute == res'.op = "compute_metrics"

\* C15: a call of compute_metrics with an empty experiment dataset or an
\* empty simulation dataset, or with neither dataset's source being
\* 'experiment' in any case of the letters, raises and writes nothing: no
\* point changes, so no NRE value is added, and the field registry of neither
\* dataset changes.
C15_RaisesBeforeWriting ==
    [][(/\ IsCompute
        /\ \/ Len(exp_ds.points) = 0
           \/ Len(ds.points) = 0
           \/ ~IsExperiment(source.exp) /\ ~IsExperiment(source.sim))
       => /\ res'.status # "ok"
          /\ heap' = heap
          /\ ds'._fields = ds._fields
          /\ exp_ds'._fields = exp_ds._fields]_vars

\* compute_metrics was refused for its sources on two loaded datasets whose
\* values would otherwise have given metrics.
C15_Witness ==
    /\ res.op = "compute_metrics"
    /\ res.error = "no experiment source"
    /\ Len(exp_ds.points) = 2
    /\ Len(ds.points) = 2
    /\ \A i \in 1..2 : /\ Slot(heap[exp_ds.points[i]].fields, "U", 0).value = 1
                       /\ Slot(heap[ds.points[i]].fields, "U", 0).value = 1

\* The call went past the checks of its arguments, into the loops.
EnteredLoops == res'.error \in {"", "no valid metrics"}

\* The fields and the times the call loops over: its arguments, or the
\* fields and the times of the first simulation point.
CallFields ==
    IF res'.fields.none THEN FieldKeys(heap[ds.points[1]].fields)
    ELSE {res'.fields.list[k] : k \in 1..Len(res'.fields.list)}

CallTimes ==
    IF res'.time_values.none THEN DOMAIN heap[ds.points[1]].fields[1].data
    ELSE {res'.time_values.list[k] : k \in 1..Len(res'.time_values.list)}

\* The values get_field_values gives before the call: of the experiment at
\* time 0 and of the simulation at time t, at the simulation's coordinates.
ExperimentValues(f) ==
    IF f \in DataSet_fields(exp_ds, heap)
    THEN CollectValues(exp_ds, heap, f, 0, get_all_coordinates(ds))
    ELSE <<>>

SimulationValues(f, t) ==
    IF f \in DataSet_fields(ds, heap)
    THEN CollectValues(ds, heap, f, t, get_all_coordinates(ds))
    ELSE <<>>

\* Metric m has a value for field f at time t: one experiment value and one
\* simulation value for every simulation point, and values the metric is
\* defined for.  It depends on the data of f at t alone.
Succeeds(m, f, t) ==
    LET e == ExperimentValues(f)
        s == SimulationValues(f, t)
    IN /\ Len(e) = Len(ds.points)
       /\ Len(s) = Len(ds.points)
       /\ IF m = NMSE THEN SumSeq(e) # 0 /\ SumSeq(s) # 0
          ELSE \A i \in 1..Len(s) : e[i] > 0 /\ s[i] > 0

Succeeded ==
    {c \in {NMSE, MG, GV} \X CallTimes \X CallFields :
        Succeeds(c[1], c[3], c[2])}

\* C16: a call of compute_metrics that went into its loops raises the
\* no-valid-metrics error exactly when no (metric, field, time) combination
\* has a value, and otherwise returns exactly the combinations that have one
\* by their own data, whatever happened to the other metrics and pairs.
C16_ExactlyTheSucceeded ==
    [][(IsCompute /\ EnteredLoops)
       => /\ (res'.error = "no valid metrics") <=> (Succeeded = {})
          /\ (res'.error = "no valid metrics") => res'.status = "ValueError"
          /\ res'.results = Succeeded]_vars

\* A call over U at times 0 and 1 returned the NMSE of U at time 0 alone: MG
\* and GV failed at time 0 and the pair of time 1 gave nothing.
C16_Witness ==
    /\ res.op = "compute_metrics"
    /\ res.status = "ok"
    /\ res.time_values = Given(<<0, 1>>)
    /\ res.results = {<<NMSE, 0, "U">>}

\* The pair (f, t) has no cached experiment values, or experiment and
\* simulation lists of different lengths.
Mismatched(f, t) ==
    \/ ExperimentValues(f) = <<>>
    \/ Len(ExperimentValues(f)) # Len(SimulationValues(f, t))

\* The call wrote an NRE value of f at time t to simulation point o.
WroteNRE(o, f, t) ==
    /\ Slot(heap[o].fields, NREName(f), t).status # "ok"
    /\ Slot(heap'[o].fields, NREName(f), t).status = "ok"

\* C17: a pair (field, time) of a call of compute_metrics whose experiment
\* and simulation lists differ in length, or whose field has no cached
\* experiment values, is skipped: no metric value is recorded for it and no
\* NRE value of the field at that time is written to any simulation point.
C17_MismatchedPairSkipped ==
    [][(IsCompute /\ EnteredLoops)
       => \A f \in CallFields, t \in CallTimes :
              Mismatched(f, t)
              => /\ \A m \in {NMSE, MG, GV} : <<m, t, f>> \notin res'.results
                 /\ \A i \in 1..Len(ds.points) :
                        ~WroteNRE(ds.points[i], f, t)]_vars

\* The experiment value of f at time 0 at the coordinates of point o.
ExperimentAt(o, f) ==
    Slot(heap[IndexGet(exp_ds._point_index, heap[o].coordinates)].fields,
         f, 0).value

\* C18: after a call of compute_metrics that returns, for every pair
\* (f, t) that gave a metric value, every simulation point holds under NRE_f
\* at t the relative error |e - s| / |e| of its value s of f at t and the
\* experiment value e of f at time 0 at its coordinates, and NRE_f is in the
\* registry of the simulation dataset; also when the points carried NRE_f
\* values before the call.
C18_RelativeErrorsStored ==
    [][(IsCompute /\ res'.status = "ok")
       => \A f \in CallFields, t \in CallTimes :
              (\E m \in {NMSE, MG, GV} : <<m, t, f>> \in res'.results)
              => /\ NREName(f) \in ds'._fields
                 /\ \A i \in 1..Len(ds.points) :
                        LET o == ds.points[i]
                            s == Slot(heap[o].fields, f, t).value
                            e == ExperimentAt(o, f)
                        IN Slot(heap'[o].fields, NREName(f), t) =
                               [status |-> "ok",
                                value |-> Abs(e - s) \div Abs(e)]]_vars

(***************************************************************************)
(* Line data: Line.update_with_data, PlaneSet.get_line_by_name and the     *)
(* loaders of qualitative/lines_data_loader.py.  A file of a time          *)
(* directory is [name, fields, array]: the line name and the field names   *)
(* its file name carries, and the array read from it.                      *)
(***************************************************************************)
\* update_with_data as it would be if the new {time: array} of a field were
\* merged into the one stored for the source.
update_with_data_merging(line, source_label, data) ==
    LET old == IF source_label \in DOMAIN line._data
               THEN line._data[source_label] ELSE EmptyMap
        new == [f \in DOMAIN old \cup DOMAIN data |->
                   IF f \notin DOMAIN data THEN old[f]
                   ELSE IF f \notin DOMAIN old THEN data[f]
                   ELSE data[f] @@ old[f]]
    IN [line EXCEPT !._data =
           [s \in DOMAIN line._data \cup {source_label} |->
               IF s = source_label THEN new ELSE line._data[s]]]

\* update_with_data as it would be if it stored the payload in a store shared
\* by all sources.
update_with_data_shared(line, source_label, data) ==
    [line EXCEPT !._data =
        [s \in DOMAIN line._data \cup {source_label} |->
            LET old == IF s \in DOMAIN line._data THEN line._data[s]
                       ELSE EmptyMap
            IN [f \in DOMAIN old \cup DOMAIN data |->
                   IF f \in DOMAIN data THEN data[f] ELSE old[f]]]]

\* Line.update_with_data(source, data): for every field of the payload, the
\* {time: array} stored under (source, field) becomes that of the payload.
update_with_data(line, source_label, data) ==
    LET old == IF source_label \in DOMAIN line._data
               THEN line._data[source_label] ELSE EmptyMap
        new == [f \in DOMAIN old \cup DOMAIN data |->
                   IF f \in DOMAIN data THEN data[f] ELSE old[f]]
    IN [line EXCEPT !._data =
           [s \in DOMAIN line._data \cup {source_label} |->
               IF s = source_label THEN new ELSE line._data[s]]]

\* PlaneSet.get_line_by_name(name): where the first line of that name is, as
\* <<plane, line>>, or <<>> where it raises KeyError.
get_line_by_name(ps, name) ==
    LET hits == UNION {{<<i, k>> : k \in {j \in 1..Len(ps[i]._lines) :
                                          ps[i]._lines[j].name = name}} :
                       i \in 1..Len(ps)}
    IN IF hits = {} THEN <<>>
       ELSE CHOOSE c \in hits :
                \A d \in hits : c[1] < d[1] \/ (c[1] = d[1] /\ c[2] <= d[2])

\* LinesDataLoader._extract_name_and_fields(name): a file name that carries
\* no field name does not match the pattern and raises OpenFOAMError.
_extract_name_and_fields(file) ==
    IF Len(file.fields) = 0 THEN [status |-> "OpenFOAMError"]
    ELSE [status |-> "ok", name |-> file.name, fields |-> file.fields]

\* LinesDataLoader(source=time).load(file): {field: {time: array}}
LinesDataLoader_load(time, file) ==
    [f \in {file.fields[k] : k \in 1..Len(file.fields)} |->
        [t \in {time} |-> file.array]]

\* The loop of OpenFOAMLinesLoader.load over the time directories from i on:
\* an OpenFOAMError of the file loader and the KeyError of an unknown line
\* name both end it with OpenFOAMError.
RECURSIVE LoadFiles(_, _, _, _)
LoadFiles(ps, source_label, dirs, i) ==
    IF i > Len(dirs) THEN [status |-> "ok", planes |-> ps]
    ELSE IF _extract_name_and_fields(dirs[i].file).status # "ok"
    THEN [status |-> "OpenFOAMError", planes |-> ps]
    ELSE LET at == get_line_by_name(ps, dirs[i].file.name)
         IN IF at = <<>> THEN [status |-> "OpenFOAMError", planes |-> ps]
            ELSE LoadFiles(
                     [ps EXCEPT ![at[1]]._lines[at[2]] =
                         update_with_data(@, source_label,
                             LinesDataLoader_load(dirs[i].time, dirs[i].file))],
                     source_label, dirs, i + 1)

\* OpenFOAMLinesLoader.load as it would be if a failing load gave the lines
\* back what they stored before it.
OpenFOAMLinesLoader_load_rollback(ps, source_label, dirs) ==
    LET r == LoadFiles(ps, source_label, dirs, 1)
    IN IF r.status = "ok" THEN r ELSE [r EXCEPT !.planes = ps]

\* OpenFOAMLinesLoader(source=source).load(path), dirs being the time
\* directories under path in the order they are listed.
OpenFOAMLinesLoader_load(ps, source_label, dirs) ==
    LoadFiles(ps, source_label, dirs, 1)

(***************************************************************************)
(* Lines and their data as steps.                                          *)
(***************************************************************************)
\* planes[i].add_line(Line(tag, fixed_coord, line_position))
PlaneAddLine(i, line_position) ==
    LET r == Plane_add_line(planes[i],
                 Line(planes[i].tag, planes[i].fixed_coord, line_position))
    IN /\ planes' = [planes EXCEPT ![i] = r.plane]
       /\ res' = [op |-> "add_line", status |-> r.status]
       /\ UNCHANGED <<heap, ds, added, exp_ds, source>>

\* load_data_into_planeset(planes, OpenFOAMLinesLoader, LinesDataLoader, path)
\* for a path whose parent directory is source_label
LoadLines(source_label, dirs) ==
    \E r \in {OpenFOAMLinesLoader_load(planes, source_label, dirs)} :
       /\ planes' = r.planes
       /\ res' = [op |-> "load_lines", status |-> r.status]
       /\ UNCHANGED <<heap, ds, added, exp_ds, source>>

(***************************************************************************)
(* SpecLines: the plane XY at 0 is got or created, lines are added to it   *)
(* location by location, and the line files of any simulation are loaded   *)
(* into the set at any moment.                                             *)
(***************************************************************************)
SimulationPaths == <<"caseA", "caseB">>

Simulations == {SimulationPaths[n] : n \in 1..Len(SimulationPaths)}

Arrays == {1}

LineNames == {Line("XY", 0, l).name : l \in Locations}

\* The files a time directory can hold: U of a line, or U and V of it
LineFiles ==
    [name : LineNames, fields : {<<"U">>, <<"U", "V">>}, array : Arrays]

\* The time directories of a simulation: at most one per time, one file in
\* each, listed in any order; V is written at time 0 only.
TimeDirectory ==
    {td \in [time : Times, file : LineFiles] :
        td.time # 0 => td.file.fields = <<"U">>}

Directories ==
    {<<>>}
    \cup {<<td>> : td \in TimeDirectory}
    \cup {d \in {<<td, ud>> : td \in TimeDirectory, ud \in TimeDirectory} :
             d[1].time # d[2].time}

MakeLinePlane == PlaneSetGetOrCreate("XY", 0)

\* the k-th line of a plane is at location k - 1
AddLine ==
    \E i \in 1..Len(planes) :
        /\ Len(planes[i]._lines) \in Locations
        /\ PlaneAddLine(i, Len(planes[i]._lines))

\* A file whose name carries no field name
UnnamedFile == [name |-> Line("XY", 0, 0).name, fields |-> <<>>, array |-> 1]

\* The listings that hold the unparsable file at time 1, alone or before or
\* after a file of U at time 0.
FaultyDirectories ==
    LET bad == [time |-> 1, file |-> UnnamedFile]
        good == {td \in TimeDirectory :
                    td.time = 0 /\ td.file.fields = <<"U">>}
    IN {<<bad>>} \cup {<<td, bad>> : td \in good}
                 \cup {<<bad, td>> : td \in good}

LoadSimulationLines ==
    \E s \in Simulations, d \in Directories \cup FaultyDirectories :
        LoadLines(s, d)

NextLines == MakeLinePlane \/ AddLine \/ LoadSimulationLines

SpecLines == Init /\ [][NextLines]_vars

(***************************************************************************)
(* Claims about the data of lines, checked under SpecLines.                *)
(***************************************************************************)
\* The stores of all lines, by line name.
Stores(ps) ==
    UNION {{<<ps[i]._lines[k].name, ps[i]._lines[k]._data>> :
               k \in 1..Len(ps[i]._lines)} : i \in 1..Len(ps)}

\* What the lines of ps store under source s, by line name.
StoredUnder(ps, s) ==
    {<<x[1], IF s \in DOMAIN x[2] THEN x[2][s] ELSE EmptyMap>> :
        x \in Stores(ps)}

\* Every load that can be made in this state: its source, its directories
\* and the planes it leaves.
Loads ==
    {[path |-> n, source |-> SimulationPaths[n], dirs |-> d,
      planes |-> OpenFOAMLinesLoader_load(planes, SimulationPaths[n],
                                          d).planes] :
        n \in 1..Len(SimulationPaths), d \in Directories}

\* The planes after the load x made on ps.
Loaded(ps, x) == OpenFOAMLinesLoader_load(ps, x.source, x.dirs).planes

C20_SourcesIndependent ==
    \A x \in Loads :
        /\ Loaded(x.planes, x) = x.planes
        /\ \A s \in Simulations \ {x.source} :
               StoredUnder(x.planes, s) = StoredUnder(planes, s)
        /\ \A y \in Loads :
               x.path < y.path
               => Loaded(x.planes, y) = Loaded(y.planes, x)

\* After a load the second line holds data of caseA and other data of caseB.
C20_Witness ==
    /\ res.op = "load_lines"
    /\ Len(planes) = 1
    /\ Len(planes[1]._lines) = 2
    /\ DOMAIN planes[1]._lines[2]._data = {"caseA", "caseB"}
    /\ planes[1]._lines[2]._data["caseA"] # planes[1]._lines[2]._data["caseB"]

(***************************************************************************)
(* PlaneSet.filter_planes_by_data and PlaneSet.group_planes_by_tag.        *)
(***************************************************************************)
\* Line.has_data(): the line stores an array for some source, field and
\* time.
has_data(line) ==
    \E s \in DOMAIN line._data : \E f \in DOMAIN line._data[s] :
        DOMAIN line._data[s][f] # {}

\* PlaneSet(planes): the planes added one by one from index i on.
RECURSIVE PlaneSet_init(_, _, _)
PlaneSet_init(ps, values, i) ==
    IF i > Len(values) THEN [status |-> "ok", planes |-> ps]
    ELSE LET r == PlaneSet_add(ps, values[i])
         IN IF r.status # "ok" THEN [status |-> r.status, planes |-> ps]
            ELSE PlaneSet_init(r.planes, values, i + 1)

\* sum(line.has_data() for line in plane.lines)
lines_with_data(plane) ==
    Cardinality({k \in 1..Len(plane._lines) : has_data(plane._lines[k])})

\* filter_planes_by_data as it would be when counting the lines of a plane
\* whether they have data or not.
filter_planes_by_data_all_lines(ps, min_lines) ==
    PlaneSet_init(<<>>,
        SelectSeq(ps, LAMBDA plane : Len(plane._lines) >= min_lines), 1)

\* PlaneSet.filter_planes_by_data(min_lines)
filter_planes_by_data(ps, min_lines) ==
    PlaneSet_init(<<>>,
        SelectSeq(ps, LAMBDA plane : lines_with_data(plane) >= min_lines), 1)

\* planes.filter_planes_by_data(min_lines)
FilterPlanesByData(min_lines) ==
    \E r \in {filter_planes_by_data(planes, min_lines)} :
       /\ res' = [op |-> "filter_planes_by_data", min_lines |-> min_lines,
                  status |-> r.status, result |-> r.planes]
       /\ UNCHANGED <<heap, ds, planes, added, exp_ds, source>>

\* The loop of group_planes_by_tag as it would be if it made a new PlaneSet
\* for the tag of every plane.
RECURSIVE GroupPlanes_replacing(_, _, _)
GroupPlanes_replacing(planes_by_tag, ps, i) ==
    IF i > Len(ps) THEN planes_by_tag
    ELSE LET tag == ps[i].tag
         IN GroupPlanes_replacing(
                [t \in DOMAIN planes_by_tag \cup {tag} |->
                    IF t = tag THEN PlaneSet_add(<<>>, ps[i]).planes
                    ELSE planes_by_tag[t]],
                ps, i + 1)

group_planes_by_tag_replacing(ps) == GroupPlanes_replacing(EmptyMap, ps, 1)

\* The loop of group_planes_by_tag over the planes from i on.
RECURSIVE GroupPlanes(_, _, _)
GroupPlanes(planes_by_tag, ps, i) ==
    IF i > Len(ps) THEN planes_by_tag
    ELSE LET tag == ps[i].tag
             made == [t \in DOMAIN planes_by_tag \cup {tag} |->
                         IF t \in DOMAIN planes_by_tag THEN planes_by_tag[t]
                         ELSE <<>>]
         IN GroupPlanes(
                [made EXCEPT ![tag] = PlaneSet_add(@, ps[i]).planes],
                ps, i + 1)

\* PlaneSet.group_planes_by_tag()
group_planes_by_tag(ps) == GroupPlanes(EmptyMap, ps, 1)

\* planes.group_planes_by_tag()
GroupPlanesByTag ==
    /\ res' = [op |-> "group_planes_by_tag",
               result |-> group_planes_by_tag(planes)]
    /\ UNCHANGED <<heap, ds, planes, added, exp_ds, source>>

(***************************************************************************)
(* SpecFilter: planes are got or created under two tags, lines are added   *)
(* to them location by location, a file with U at time 0 is loaded for     *)
(* any line, and the set is filtered and grouped at any moment.            *)
(***************************************************************************)
MakeTaggedPlane ==
    \E tag \in {"XY", "XZ"}, fixed_coord \in Locations :
        /\ Len(planes) < MaxPlanes \/ HasKey(planes, <<tag, fixed_coord>>)
        /\ PlaneSetGetOrCreate(tag, fixed_coord)

LoadLineFile ==
    \E i \in 1..Len(planes) : \E k \in 1..Len(planes[i]._lines) :
        LoadLines("caseA",
                  <<[time |-> 0,
                     file |-> [name |-> planes[i]._lines[k].name,
                               fields |-> <<"U">>, array |-> 1]]>>)

Filter == \E min_lines \in 0..Cardinality(Locations) :
              FilterPlanesByData(min_lines)

NextFilter ==
    MakeTaggedPlane \/ AddLine \/ LoadLineFile \/ Filter \/ GroupPlanesByTag

SpecFilter == Init /\ [][NextFilter]_vars

(***************************************************************************)
(* Claims about filtering and grouping, checked under SpecFilter.          *)
(***************************************************************************)
\* sub holds some of the planes of ps, in the order they have in ps.
IsSubsequence(sub, ps) ==
    \E pick \in SUBSET (1..Len(ps)) :
        sub = SelectSeq([i \in 1..Len(ps) |-> IF i \in pick THEN ps[i]
                                              ELSE [tag |-> ""]],
                        LAMBDA x : x.tag # "")

\* The plane has at least min_lines lines whose store is not empty.
EnoughData(plane, min_lines) ==
    Cardinality({k \in 1..Len(plane._lines) :
                    plane._lines[k]._data # EmptyMap}) >= min_lines

\* C21: filter_planes_by_data(min_lines) returns a new PlaneSet that holds
\* exactly the planes of the original with at least min_lines lines that
\* have data, as they are stored in the original and in its iteration
\* order; the original is left unchanged.
C21_FilterPlanesByData ==
    [][res'.op = "filter_planes_by_data"
       => /\ res'.status = "ok"
          /\ planes' = planes
          /\ IsSubsequence(res'.result, planes)
          /\ \A i \in 1..Len(planes) :
                 (\E j \in 1..Len(res'.result) : res'.result[j] = planes[i])
                 <=> EnoughData(planes[i], res'.min_lines)]_vars

\* A filter with min_lines = 1 kept the second of two planes and dropped the
\* first, which has a line but no data.
C21_Witness ==
    /\ res.op = "filter_planes_by_data"
    /\ res.min_lines = 1
    /\ Len(planes) = 2
    /\ Len(planes[1]._lines) > 0
    /\ res.result = <<planes[2]>>

\* The number of members of all groups together.
RECURSIVE TotalSize(_, _)
TotalSize(groups, tags) ==
    IF tags = {} THEN 0
    ELSE LET t == CHOOSE x \in tags : TRUE
         IN Len(groups[t]) + TotalSize(groups, tags \ {t})

\* C22: group_planes_by_tag gives one PlaneSet per tag present in the set;
\* every plane of the set is in the group of its tag and in no other, once;
\* no group is empty, the sizes of the groups sum to the size of the set,
\* and the set is left unchanged.
C22_GroupPlanesByTag ==
    [][res'.op = "group_planes_by_tag"
       => LET groups == res'.result
          IN /\ planes' = planes
             /\ DOMAIN groups = {planes[i].tag : i \in 1..Len(planes)}
             /\ \A i \in 1..Len(planes) : \A t \in DOMAIN groups :
                    Cardinality({j \in 1..Len(groups[t]) :
                                    groups[t][j] = planes[i]})
                    = IF t = planes[i].tag THEN 1 ELSE 0
             /\ \A t \in DOMAIN groups : groups[t] # <<>>
             /\ TotalSize(groups, DOMAIN groups) = Len(planes)]_vars

\* Two planes under two tags were grouped into two groups of one plane.
C22_Witness ==
    /\ res.op = "group_planes_by_tag"
    /\ Len(planes) = 2
    /\ DOMAIN res.result = {"XY", "XZ"}
    /\ res.result["XY"] # res.result["XZ"]

(***************************************************************************)
(* Claims about a load that fails, checked under SpecLines.                *)
(***************************************************************************)
\* The file cannot be loaded into ps: its name does not parse, or it names
\* no line of ps.
Unloadable(ps, file) ==
    \/ Len(file.fields) = 0
    \/ \A i \in 1..Len(ps) : \A k \in 1..Len(ps[i]._lines) :
           ps[i]._lines[k].name # file.name

MaxValues == 2

\* The lists handed to a metric function
MetricInputs == UNION {[1..n -> {0 - 1, 0, 1}] : n \in 0..MaxValues}

\* predictions and experiment are chosen
ChooseInputs ==
    \E predictions \in MetricInputs, experiment \in MetricInputs :
        /\ res' = [op |-> "inputs", predictions |-> predictions,
                   experiment |-> experiment]
        /\ UNCHANGED <<heap, ds, planes, added, exp_ds, source>>

\* metric_func(predictions, experiment) for one of the three metrics
ComputeMetric ==
    \E metric \in {NMSE, MG, GV} :
        /\ res.op = "inputs"
        /\ res' = [op |-> "metric", metric |-> metric,
                   predictions |-> res.predictions,
                   experiment |-> res.experiment,
                   status |-> MetricStatus(metric, res.predictions,
                                           res.experiment)]
        /\ UNCHANGED <<heap, ds, planes, added, exp_ds, source>>

NextValidate == ChooseInputs \/ ComputeMetric

SpecValidate == Init /\ [][NextValidate]_vars

\* Some value of the list is zero or negative.
HasNonPositive(values) == \E i \in 1..Len(values) : values[i] <= 0

\* C24: the metric functions validate before computing: the mean bias and
\* the geometric variance raise when a prediction or an experiment value is
\* zero or negative, the NMSE raises when the mean of either list is zero,
\* and all three raise when the lists differ in length; they return a value
\* in no such case.
C24_ValidatesInputs ==
    res.op = "metric" =>
        LET p == res.predictions
            e == res.experiment
            invalid ==
                \/ Len(p) # Len(e)
                \/ /\ res.metric \in {MG, GV}
                   /\ HasNonPositive(p) \/ HasNonPositive(e)
                \/ /\ res.metric = NMSE
                   /\ p # <<>>
                   /\ e # <<>>
                   /\ SumSeq(p) = 0 \/ SumSeq(e) = 0
        IN invalid => res.status = "ValueError"

\* The geometric variance was asked of two lists of equal length that hold
\* a zero among positive values, and raised.
C24_Witness ==
    /\ res.op = "metric"
    /\ res.metric = GV
    /\ res.predictions = <<1, 0>>
    /\ res.experiment = <<1, 1>>
    /\ res.status = "ValueError"

(***************************************************************************)
(* Claims about the field registry and the coordinate index under any      *)
(* sequence of operations.                                                 *)
(***************************************************************************)
\* C25: after any sequence of add_point, add_field_value and reads of
\* DataSet.fields, the field registry holds every field name that a point of
\* the dataset holds, and get_field_values does not reject such a field as
\* unknown.
C25_RegistryComplete ==
    \A i \in 1..Len(ds.points) :
        \A f \in FieldKeys(heap[ds.points[i]].fields) :
            /\ f \in DataSet_fields(ds, heap)
            /\ get_field_values(ds, heap, f, DEFAULT_TIME_FOR_DATASET,
                                get_all_coordinates(ds)).status = "ok"

\* DataSet.__setitem__(index, point) for an index of the list, counted
\* from 0: the dataset afterwards.
DataSet_setitem(d, h, index, o) ==
    [d EXCEPT !.points = [@ EXCEPT ![index + 1] = o],
              !._point_index = IndexSetdefault(@, h[o].coordinates, o)]

\* ds[index] = heap[o]
ReplaceItem(index, o) ==
    /\ ds' = DataSet_setitem(ds, heap, index, o)
    /\ res' = [op |-> "setitem", index |-> index, obj |-> o,
               old |-> ds.points[index + 1]]
    /\ UNCHANGED <<heap, planes, added, exp_ds, source>>

(***************************************************************************)
(* SpecReplace: points are constructed, added to the dataset and put in    *)
(* the place of points of the list, the coordinates of the list staying    *)
(* pairwise distinct; points are looked up by coordinates.                 *)
(***************************************************************************)
\* The coordinates of the list, but for position index (counted from 0).
OtherCoordinates(index) ==
    {heap[ds.points[i]].coordinates : i \in (1..Len(ds.points)) \ {index + 1}}

AddDistinctPoint ==
    \E o \in 1..Len(heap) :
        /\ Len(ds.points) < MaxPoints
        /\ heap[o].coordinates \notin OtherCoordinates(0 - 1)
        /\ AddPoint(o)

ReplacePoint ==
    \E index \in 0..(Len(ds.points) - 1), o \in 1..Len(heap) :
        /\ heap[o].coordinates \notin OtherCoordinates(index)
        /\ ReplaceItem(index, o)

NextReplace == MakeKeyPoint \/ AddDistinctPoint \/ ReplacePoint \/ LookupPoint

SpecReplace == Init /\ [][NextReplace]_vars

\* C26: after any sequence of add_point and dataset[i] = point on a dataset
\* whose coordinates are pairwise distinct, the keys of the index are the
\* coordinates of the points of the list and every key resolves to the point
\* of the list with those coordinates; a point that was replaced is returned
\* neither by get_point_by_coordinates nor through get_all_coordinates.
C26_IndexAgreesWithList ==
    /\ {get_all_coordinates(ds)[k] : k \in 1..Len(get_all_coordinates(ds))}
           = OtherCoordinates(0 - 1)
    /\ \A i \in 1..Len(ds.points) :
           get_point_by_coordinates(ds, heap[ds.points[i]].coordinates)
               = ds.points[i]
    /\ (res.op = "setitem" /\ res.old # res.obj)
           => \A c \in Keys : get_point_by_coordinates(ds, c) # res.old

(***************************************************************************)
(* The constructor of DataSet against add_point.                           *)
(***************************************************************************)
\* {point.coordinates: point for point in points}, from position i on
RECURSIVE IndexOf(_, _, _, _)
IndexOf(idx, h, points, i) ==
    IF i > Len(points) THEN idx
    ELSE IndexOf(IndexAssign(idx, h[points[i]].coordinates, points[i]),
                 h, points, i + 1)

\* DataSet(source, points)
DataSet_init(h, points) ==
    [points |-> points, _point_index |-> IndexOf(<<>>, h, points, 1),
     _fields |-> {}]

\* C27: the dataset the constructor builds from a list of points and the
\* dataset add_point builds from the same points in the same order have the
\* same ordered list, the same get_all_coordinates() and the same
\* get_point_by_coordinates(c) for every c, also when points of the list
\* have equal coordinates.
C27_ConstructorAsAddPoint ==
    LET built == DataSet_init(heap, added)
    IN ds.points = added
       => /\ built.points = ds.points
          /\ get_all_coordinates(built) = get_all_coordinates(ds)
          /\ \A c \in Keys :
                 get_point_by_coordinates(built, c)
                     = get_point_by_coordinates(ds, c)

(***************************************************************************)
(* The points of the planes of points_to_planes, checked under SpecPlanes. *)
(***************************************************************************)
\* The planes of ps with that tag that store point o.
PlanesStoring(ps, tag, o) ==
    {i \in 1..Len(ps) :
        /\ ps[i].tag = tag
        /\ \E k \in 1..Len(ps[i]._points) : ps[i]._points[k] = o}

\* The places of the planes of ps with that tag: one for every stored point.
PointPlaces(ps, tag) ==
    UNION {{<<i, k>> : k \in 1..Len(ps[i]._points)} :
              i \in {n \in 1..Len(ps) : ps[n].tag = tag}}

\* C28: points_to_planes('X') on a dataset of distinct PointData objects
\* stores every point in exactly one XY plane, the one whose fixed
\* coordinate is the point's z, and in exactly one XZ plane, the one whose
\* fixed coordinate is its y; the points of the XY planes are as many as the
\* points of the dataset, and so are those of the XZ planes; the ordered
\* list, the index and the registry of the dataset and the points
\* themselves are left as they were.
C28_PartitionAndFrame ==
    [][(/\ res'.op = "points_to_planes"
        /\ res'.flow_direction = "X"
        /\ PairwiseDistinct(ds.points))
       => /\ res'.status = "ok"
          /\ \A n \in 1..Len(ds.points) :
                 LET o == ds.points[n]
                     xy == PlanesStoring(planes', "XY", o)
                     xz == PlanesStoring(planes', "XZ", o)
                 IN /\ Cardinality(xy) = 1
                    /\ Cardinality(xz) = 1
                    /\ \A i \in xy :
                           planes'[i].fixed_coord = heap[o].coordinates[3]
                    /\ \A i \in xz :
                           planes'[i].fixed_coord = heap[o].coordinates[2]
          /\ Cardinality(PointPlaces(planes', "XY")) = Len(ds.points)
          /\ Cardinality(PointPlaces(planes', "XZ")) = Len(ds.points)
          /\ ds' = ds
          /\ heap' = heap]_vars

\* Two distinct points with the same coordinates were converted: one XY
\* plane and one XZ plane, each storing both.
C28_Witness ==
    /\ res.op = "points_to_planes"
    /\ res.flow_direction = "X"
    /\ res.status = "ok"
    /\ Len(ds.points) = 2
    /\ ds.points[1] # ds.points[2]
    /\ heap[ds.points[1]].coordinates = heap[ds.points[2]].coordinates
    /\ Len(planes) = 2
    /\ \A i \in 1..2 : Len(planes[i]._points) = 2

(***************************************************************************)
(* SpecAlign: the experiment is loaded along a line, every point with a    *)
(* value of U at time 0; the points of the simulation are loaded at any    *)
(* coordinates of the line, in any order and also twice at the same        *)
(* coordinates, until the registry of the simulation is first built; the   *)
(* metrics are computed at any moment.                                     *)
(***************************************************************************)
NameAligned ==
    /\ res.op = "init"
    /\ MakeDataSets("experiment", "simulation")

LoadAlignedExperiment ==
    /\ Len(exp_ds.points) < MaxPoints
    /\ Len(ds.points) = 0
    /\ res.op # "init"
    /\ \E v \in {1, 2} :
           LoadExperimentPoint(
               <<Len(exp_ds.points), 0, 0>>,
               <<[name |-> "U", isdict |-> TRUE, scalar |-> None,
                  dict |-> [t \in {0} |-> v]]>>)

LoadSimulationAnywhere ==
    /\ Len(ds.points) < MaxPoints
    /\ ds._fields = {}
    /\ res.op # "init"
    /\ \E x \in 0..(MaxPoints - 1),
          m \in [{0} -> {1, 2}] \cup [Times -> {1}] :
           LoadPoint(<<x, 0, 0>>,
                     <<[name |-> "U", isdict |-> TRUE, scalar |-> None,
                        dict |-> m]>>)

ComputeAligned ==
    /\ res.op # "init"
    /\ \E time_values \in TimeArguments \cup {Given(<<0>>)} :
           ComputeMetrics(time_values, NotGiven)

NextAlign ==
    \/ NameAligned
    \/ LoadAlignedExperiment
    \/ LoadSimulationAnywhere
    \/ ComputeAligned

SpecAlign == Init /\ [][NextAlign]_vars

\* The experiment point at the coordinates of simulation point o, or None.
Counterpart(o) == get_point_by_coordinates(exp_ds, heap[o].coordinates)

TimeConsistent(d, h) ==
    /\ \A i \in 1..Len(d.points) : get_times(h[d.points[i]].fields).status = "ok"
    /\ check_times(d, h).status = "ok"

\* C30: a call of compute_metrics that returns leaves the simulation dataset
\* consistent in time if it found it so: when get_times() of every
\* simulation point and check_times() succeeded before the call, they
\* succeed after it, whatever time_values and fields were given or
\* defaulted.
C30_TimeConsistencyPreserved ==
    [][(IsCompute /\ res'.status = "ok" /\ TimeConsistent(ds, heap))
       => TimeConsistent(ds', heap')]_vars

====
